---- MODULE Spec2Model ----
(***************************************************************************)
(* Heatmap-of-fascism bot: ingestion, approval and dedup pipeline.         *)
(*                                                                         *)
(* The repository holds two implementations of the poll cycle:             *)
(*   - hm/core/main_loop.py run_loop + hm/core/pipeline.py Pipeline        *)
(*     (specifications Spec and SpecDedup), and                            *)
(*   - bot.py main / main_once (specification SpecBot).                    *)
(* Python dicts are TLA+ functions (a missing key is a missing DOMAIN      *)
(* element), Python lists are sequences, None is the string "None", an     *)
(* ISO date is a string of the list Dates.                                 *)
(*                                                                         *)
(* Coordinates are pairs of integers: metres of arc north of the equator   *)
(* and east of the prime meridian.  Every modelled site lies on the same   *)
(* meridian, where the great-circle distance is the difference of the      *)
(* latitudes.                                                              *)
(***************************************************************************)
EXTENDS Integers, Sequences, FiniteSets, TLC

VARIABLES
    posts,          \* the Mastodon instance: the statuses posted so far, posts[i].id = i
    cache,          \* cache_geocode.json in memory (geocode entries and reply_once keys)
    pending,        \* Pipeline.pending / main_once pending: list of items
    reports,        \* reports["features"]: list of features
    reports_ids,    \* Pipeline.reports_ids / main_once reports_ids
    pc,             \* position of the poll loop inside one cycle
    tag_i,          \* index of the hashtag whose timeline is being ingested
    timeline,       \* statuses of the fetched timeline not yet handled
    idx,            \* index of the pending item the publish loop looks at
    active_pending, \* _process_pending active_pending / main_once still_pending
    saved,          \* the three JSON documents on disk
    sent,           \* public replies the instance has accepted from the bot
    obs             \* what the last approval lookup saw on the instance

vars == <<posts, cache, pending, reports, reports_ids, pc, tag_i, timeline,
          idx, active_pending, saved, sent, obs>>

-----------------------------------------------------------------------------
(* Bounds of the model.                                                    *)

MaxPosts == 3   \* statuses ever posted under the watched hashtags
MaxSeen == 3    \* publishing stops once a feature was seen this often

-----------------------------------------------------------------------------
(* Python helpers.                                                         *)

None == "None"

get(d, k, dflt) == IF k \in DOMAIN d THEN d[k] ELSE dflt

Put(d, k, v) == [x \in DOMAIN d \cup {k} |-> IF x = k THEN v ELSE d[x]]

Max(a, b) == IF a >= b THEN a ELSE b

Min(a, b) == IF a <= b THEN a ELSE b

Abs(a) == IF a >= 0 THEN a ELSE 0 - a

Contains(s, x) == \E i \in 1..Len(s) : s[i] = x

-----------------------------------------------------------------------------
(* hm/core/constants.py                                                    *)

ACC_GPS == 15
ACC_NODE == 10
ACC_NEAREST == 30
ACC_DEFAULT == 50
ACC_FALLBACK == 2000

-----------------------------------------------------------------------------
(* The environment: accounts, dates, sites and the statuses users post.    *)

\* acct strings of the instance: a local account has no domain part.
Acct(user, domain) == [user |-> user, domain |-> domain]

Mod == Acct("mod", "")
Eve == Acct("eve", "")
ModRemote == Acct("mod", "other.example")

\* support/state.py load_trusted_accounts(): the allow-listed reviewers.
load_trusted_accounts == {Mod}

\* created_at[:10] of the i-th status: ids grow with time.
Dates == <<"2026-01-01", "2026-01-02", "2026-01-03", "2026-01-04", "2026-01-05">>

DayOf(d) == CHOOSE i \in 1..Len(Dates) : Dates[i] = d

SiteA == <<5800000, 900000>>
SiteB == <<5800015, 900000>>
SiteC == <<5800016, 900000>>
SiteD == <<5800500, 900000>>
SiteE == <<5800100, 900000>>

\* A written decimal degree in the unit of the sites: 58.00000 is 5800000.
PerDegree == 100000

\* The pair "95.5, 200.5".
SiteOut == <<9550000, 20050000>>

\* The location part of a status text.
LocCoords(c) == [kind |-> "coords", coords |-> c]
LocQuery(q) == [kind |-> "query", q |-> q]
LocNone == [kind |-> "none"]
\* A coordinate pair and, on another line, an address.
LocBoth(c, q) == [kind |-> "coords", coords |-> c, q |-> q]

\* Where the map providers place a query string.
GeoTruth(q) == CASE q = "Hauptstrasse 5, Springfield" -> SiteC
                 [] q = "Bahnhofstrasse 1, Shelbyville" -> SiteD
                 [] OTHER -> SiteA

\* One kind of status: hashtags, mention of the bot, image attachment,
\* location text, the text after #sticker_type ("" when the line is absent).
Kind(tags, mention, image, loc, type_line) ==
    [tags |-> tags, mention |-> mention, image |-> image, loc |-> loc,
     type_line |-> type_line, in_reply_to_id |-> 0, account |-> Eve]

ReportTag == "sticker_report"
RemovedTag == "sticker_removed"

\* Statuses of the lifecycle specification.
LifecycleKinds ==
    { Kind({ReportTag}, TRUE, TRUE, LocCoords(SiteA), ""),
      Kind({ReportTag}, TRUE, TRUE, LocCoords(SiteA), "AfD"),
      Kind({ReportTag}, TRUE, TRUE, LocCoords(SiteOut), "AfD"),
      Kind({ReportTag, RemovedTag}, TRUE, TRUE, LocCoords(SiteC), "NPD"),
      Kind({ReportTag}, TRUE, TRUE, LocQuery("Hauptstrasse 5, Springfield"), "AfD"),
      Kind({ReportTag}, TRUE, TRUE, LocNone, ""),
      Kind({ReportTag}, TRUE, FALSE, LocCoords(SiteA), ""),
      Kind({RemovedTag}, FALSE, TRUE, LocCoords(SiteA), "") }

\* Statuses of the dedup specification: well-formed reports only.
DedupKinds ==
    { Kind({ReportTag}, TRUE, TRUE, LocCoords(SiteA), ""),
      Kind({ReportTag}, TRUE, TRUE, LocCoords(SiteA), "AfD"),
      Kind({RemovedTag}, TRUE, TRUE, LocCoords(SiteB), "afd"),
      Kind({ReportTag}, TRUE, TRUE, LocCoords(SiteB), ""),
      Kind({ReportTag}, TRUE, TRUE, LocCoords(SiteC), "NPD"),
      Kind({ReportTag}, TRUE, TRUE, LocQuery("Hauptstrasse 5, Springfield"), "AfD") }

ItemId(sid) == <<"masto", sid>>
Url(sid) == <<"https://instance/@user", sid>>
ImageUrl(sid) == <<"https://instance/media", sid>>

\* The status dict the API returns for the i-th post of kind k.
Status(i, k) ==
    [id |-> i, url |-> Url(i), created_at |-> Dates[i],
     content |-> [mention |-> k.mention, tags |-> k.tags, loc |-> k.loc,
                  type_line |-> k.type_line],
     media_attachments |-> IF k.image THEN <<[type |-> "image", url |-> ImageUrl(i)]>>
                           ELSE <<>>,
     in_reply_to_id |-> k.in_reply_to_id,
     account |-> k.account]

-----------------------------------------------------------------------------
(* hm/domain/parse_post.py                                                 *)

\* RE_COORDS.search on a text whose decimal pair is c, the longitude written
\* with at most three digits before the point: the groups of the match.
\* The first group takes at most two digits before the point, so of a
\* longer latitude it takes the last two, without the sign.
RE_COORDS(c) ==
    <<IF Abs(c[1]) < 100 * PerDegree THEN c[1] ELSE Abs(c[1]) % (100 * PerDegree), c[2]>>

\* parse_location: (coords, q); an absent value is <<>> resp. None.
parse_location(content) ==
    CASE content.loc.kind = "coords" -> [coords |-> RE_COORDS(content.loc.coords), q |-> None]
      [] content.loc.kind = "query" -> [coords |-> <<>>, q |-> content.loc.q]
      [] OTHER -> [coords |-> <<>>, q |-> None]

has_image(attachments) ==
    \E i \in 1..Len(attachments) :
        attachments[i].type = "image" /\ "url" \in DOMAIN attachments[i]

\* parse_type_and_medium: (medium, sticker_type, err) of the one type line.
parse_type_and_medium(content) ==
    IF content.type_line = ""
    THEN [medium |-> None, sticker_type |-> "unknown", err |-> None]
    ELSE [medium |-> "sticker", sticker_type |-> content.type_line, err |-> None]

\* str.lower() on the category texts of the model.
Lower(s) == CASE s = "AfD" -> "afd"
              [] s = "NPD" -> "npd"
              [] s = "Unknown" -> "unknown"
              [] OTHER -> s

-----------------------------------------------------------------------------
(* hm/domain/dedup.py                                                      *)

\* Great-circle distance of two points of one meridian, in metres.
haversine_m(lat1, lon1, lat2, lon2) == Abs(lat2 - lat1)

\* int(d.get(k) or dflt): a missing or zero number gives the default.
IntOr(d, k, dflt) == IF k \in DOMAIN d /\ d[k] # 0 THEN d[k] ELSE dflt

\* list(d.get(k) or []).
ListOr(d, k) == IF k \in DOMAIN d THEN d[k] ELSE <<>>

\* (d.get(k) or "unknown") of a text.
OrUnknown(d, k) ==
    IF k \in DOMAIN d /\ d[k] \notin {None, ""} THEN d[k] ELSE "unknown"

\* A variant of the loop's test that compares the category texts as written.
DedupMatchesExact(f, new_feat) ==
    LET new_p == new_feat.properties
        p == f.properties
        coords == f.geometry.coordinates
        new_r == IntOr(new_p, "radius_m", 50)
        new_type == OrUnknown(new_p, "sticker_type")
        ex_r == IntOr(p, "radius_m", 50)
        ex_type == OrUnknown(p, "sticker_type")
    IN  /\ Len(coords) = 2
        /\ (new_type = "unknown" \/ ex_type = "unknown" \/ new_type = ex_type)
        /\ haversine_m(new_feat.geometry.coordinates[2], new_feat.geometry.coordinates[1],
                       coords[2], coords[1]) <= Max(ex_r, new_r)

\* The loop's test: feature f is the one new_feat is merged into.
DedupMatches(f, new_feat) ==
    LET new_p == new_feat.properties
        p == f.properties
        coords == f.geometry.coordinates
        new_lat == new_feat.geometry.coordinates[2]
        new_lon == new_feat.geometry.coordinates[1]
        new_r == IntOr(new_p, "radius_m", 50)
        new_type == Lower(OrUnknown(new_p, "sticker_type"))
        ex_r == IntOr(p, "radius_m", 50)
        ex_type == Lower(OrUnknown(p, "sticker_type"))
    IN  /\ Len(coords) = 2
        /\ (new_type = "unknown" \/ ex_type = "unknown" \/ new_type = ex_type)
        /\ haversine_m(new_lat, new_lon, coords[2], coords[1]) <= Max(ex_r, new_r)

RECURSIVE MergeMedia(_, _)
MergeMedia(media, new) ==
    IF new = <<>> THEN media
    ELSE LET u == Head(new)
         IN  MergeMedia(IF ~Contains(media, u) THEN Append(media, u) ELSE media,
                        Tail(new))

\* A variant of the loop body that leaves the sighting counter alone.
DedupUpdateNoCount(p, new_p) ==
    Put(Put(p, "last_seen", get(new_p, "created_date", None)),
        "status", get(new_p, "status", None))

\* The body of the loop on a match: the updated properties of the feature.
DedupUpdate(p, new_p) ==
    LET new_type == Lower(OrUnknown(new_p, "sticker_type"))
        ex_type == Lower(OrUnknown(p, "sticker_type"))
        new_status == get(new_p, "status", None)
        p1 == Put(p, "last_seen", get(new_p, "created_date", None))
        p2 == Put(p1, "seen_count", get(p, "seen_count", 1) + 1)
        p3 == IF new_status = "present"
              THEN Put(Put(p2, "status", "present"), "removed_at", None)
              ELSE Put(Put(p2, "status", "removed"), "removed_at",
                       get(new_p, "removed_at", None))
        p4 == IF ex_type = "unknown" /\ new_type # "unknown"
              THEN Put(p3, "sticker_type", new_type)
              ELSE p3
    IN  Put(p4, "media", MergeMedia(ListOr(p, "media"), ListOr(new_p, "media")))

\* A variant of the loop that goes on to the last feature that matches.
LastMatch(hit) == CHOOSE j \in hit : \A k \in hit : k <= j

\* The loop breaks at the first feature that matches.
FirstMatch(hit) == CHOOSE j \in hit : \A k \in hit : j <= k

\* attempt_dedup: (merged, the features after the call).
\* A variant of attempt_dedup that finds no feature to merge into.
attempt_dedup_none(new_feat, features) == [merged |-> FALSE, features |-> features]

attempt_dedup(new_feat, features) ==
    LET hit == {i \in 1..Len(features) : DedupMatches(features[i], new_feat)}
    IN  IF hit = {} THEN [merged |-> FALSE, features |-> features]
        ELSE LET i == FirstMatch(hit)
             IN  [merged |-> TRUE,
                  features |->
                      [features EXCEPT ![i].properties =
                          DedupUpdate(features[i].properties, new_feat.properties)]]

-----------------------------------------------------------------------------
(* hm/domain/geojson_normalize.py                                          *)

Truthy(d, k) == k \in DOMAIN d /\ d[k] \notin {None, ""}

\* The date backfill of one feature (entity and year/month fields, which
\* derive from these and from entities.json, are not modelled).
NormalizeProps(p) ==
    LET p0 == IF Truthy(p, "medium") THEN p ELSE Put(p, "medium", "sticker")
        p1 == IF ~Truthy(p0, "first_seen") /\ Truthy(p0, "created_date")
              THEN Put(p0, "first_seen", p0["created_date"]) ELSE p0
    IN  IF ~Truthy(p1, "last_seen") /\ Truthy(p1, "first_seen")
        THEN Put(p1, "last_seen", p1["first_seen"]) ELSE p1

normalize_reports_geojson(features) ==
    [i \in 1..Len(features) |->
        IF Len(features[i].geometry.coordinates) = 2
        THEN [features[i] EXCEPT !.properties = NormalizeProps(@)]
        ELSE features[i]]

-----------------------------------------------------------------------------
(* hm/adapters/mastodon_api.py                                             *)

Tags == <<ReportTag, RemovedTag>>

BotAcct == Acct("heatmapoffascism", "")

BotIdKey == <<"_bot_account_id", 0>>

RECURSIVE NewestFirst(_)
NewestFirst(ids) ==
    IF ids = {} THEN <<>>
    ELSE LET m == CHOOSE i \in ids : \A j \in ids : j <= i
         IN  <<posts[m]>> \o NewestFirst(ids \ {m})

\* fetch_timeline: the statuses carrying the tag, or [] when the call fails.
fetch_timeline(tag, code) ==
    IF code = 200
    THEN NewestFirst({i \in 1..Len(posts) : tag \in posts[i].content.tags})
    ELSE <<>>

\* get_favourited_by: the acct strings of the answer, [] when the call fails.
get_favourited_by(resp) == IF resp.code = 200 THEN resp.accounts ELSE <<>>

\* A variant of the approval test that takes any favourite for an approval.
is_approved_by_any_fav(resp, trusted_set) == Len(get_favourited_by(resp)) > 0

is_approved_by_fav(resp, trusted_set) ==
    LET favs == get_favourited_by(resp)
    IN  \E i \in 1..Len(favs) :
            Acct(favs[i].user, "") \in trusted_set \/ favs[i] \in trusted_set

\* reply_once: r is what the instance answers to the calls it makes
\* (verify_credentials, fetch_status of the parent, the mute flag, the POST).
reply_once(c, s, kind, status_id, r) ==
    LET key == <<kind, status_id>>
        dup == <<"replied_to_parent", status_id>>
    IN  IF key \in DOMAIN c THEN [cache |-> c, sent |-> s, ok |-> TRUE]
        ELSE
        LET c1 == IF BotIdKey \notin DOMAIN c /\ r.creds = 200
                  THEN Put(c, BotIdKey, BotAcct) ELSE c
            parent == posts[status_id]
            blocked == \/ r.creds = 0
                       \/ ~r.parent
                       \/ (BotIdKey \in DOMAIN c1 /\ parent.account = BotAcct)
                       \/ ~parent.content.mention
                       \/ ReportTag \notin parent.content.tags
                       \/ dup \in DOMAIN c1
        IN  IF blocked \/ r.muted
            THEN [cache |-> Put(c1, key, TRUE), sent |-> s, ok |-> TRUE]
            ELSE IF r.code \in {200, 202, 404, 422}
            THEN [cache |-> Put(Put(c1, key, TRUE), dup, TRUE),
                  sent |-> IF r.code \in {200, 202}
                           THEN Append(s, [to |-> status_id, kind |-> kind]) ELSE s,
                  ok |-> TRUE]
            ELSE [cache |-> c1, sent |-> s, ok |-> FALSE]

-----------------------------------------------------------------------------
(* hm/core/pipeline.py                                                     *)

\* The part of the program state one status or item handler works on.
Mem == [cache |-> cache, pending |-> pending, reports |-> reports,
        reports_ids |-> reports_ids, sent |-> sent]

WithReply(S, kind, status_id, r) ==
    LET res == reply_once(S.cache, S.sent, kind, status_id, r)
    IN  [S EXCEPT !.cache = res.cache, !.sent = res.sent]

_has_required_mention(st) == st.content.mention

\* [a.get("url") for a in attachments if a.get("type") == "image"]
RECURSIVE ImageUrls(_)
ImageUrls(attachments) ==
    IF attachments = <<>> THEN <<>>
    ELSE IF Head(attachments).type = "image"
    THEN <<get(Head(attachments), "url", None)>> \o ImageUrls(Tail(attachments))
    ELSE ImageUrls(Tail(attachments))

_create_pending_item(st, item_id, tag, status, error) ==
    [id |-> item_id, status_id |-> st.id, status |-> status,
     event |-> IF tag = RemovedTag THEN "removed" ELSE "present",
     tag |-> tag, source |-> st.url, created_at |-> st.created_at,
     created_date |-> st.created_at, error |-> error, content |-> st.content,
     media |-> ImageUrls(st.media_attachments)]

\* A variant of the security check that trusts every account.
is_trusted_any(account, trusted) == TRUE

\* is_trusted = (base in trusted) or (acct in trusted)
is_trusted_acct(account, trusted) ==
    Acct(account.user, "") \in trusted \/ account \in trusted

_handle_update_reply(S, st, tag, r) ==
    LET is_removed == tag = RemovedTag
        trusted == load_trusted_accounts
        is_trusted == is_trusted_acct(st.account, trusted)
        target == ItemId(st.in_reply_to_id)
        hit == {i \in 1..Len(S.reports) : S.reports[i].properties.item_id = target}
    IN  IF ~is_trusted \/ hit = {} THEN S
        ELSE
        LET i == CHOOSE j \in hit : \A k \in hit : j <= k
            p == S.reports[i].properties
            iso_date == st.created_at
            q == IF is_removed
                 THEN IF get(p, "status", None) # "removed"
                      THEN Put(Put(Put(p, "status", "removed"), "removed_at", iso_date),
                               "last_seen", iso_date)
                      ELSE p
                 ELSE Put(Put(Put(Put(p, "status", "present"), "removed_at", None),
                              "last_seen", iso_date),
                          "seen_count", get(p, "seen_count", 1) + 1)
        IN  WithReply([S EXCEPT !.reports[i].properties = q],
                      "update_confirm", st.id, r)

\* A variant of the queue test that never finds the source.
InPendingNever(queue, url) == FALSE

\* for p in self.pending: if str(p.get("source")) == url: return
InPending(queue, url) == \E i \in 1..Len(queue) : queue[i].source = url

\* A variant of the placeholder test that takes (0, 0) for a position.
NoLocationNever(lat, lon) == FALSE

\* if not lat and not lon: the placeholder (0.0, 0.0) means no position.
NoLocation(lat, lon) == lat = 0 /\ lon = 0

\* _handle_status; geo is the answer of the geocoder, snap that of the
\* way snapper, r that of the instance to reply_once.
_handle_status(S, st, tag, geo, snap, r) ==
    LET status_id == st.id
        item_id == ItemId(st.id)
    IN
    IF ~_has_required_mention(st) THEN S
    ELSE IF st.in_reply_to_id # 0
    THEN IF tag \in {"report_again", RemovedTag}
         THEN _handle_update_reply(S, st, tag, r) ELSE S
    ELSE IF item_id \in S.reports_ids THEN S
    ELSE IF InPending(S.pending, st.url) THEN S
    ELSE IF ~has_image(st.media_attachments)
    THEN WithReply(S, "no_image", status_id, r)
    ELSE
    LET loc == parse_location(st.content)
        cached == loc.coords = <<>> /\ loc.q # None /\ <<"geo", loc.q>> \in DOMAIN S.cache
        looked == loc.coords = <<>> /\ loc.q # None /\ ~cached
        found == looked /\ geo.coords # <<>>
        latlon == IF loc.coords # <<>> THEN loc.coords
                  ELSE IF cached
                  THEN <<S.cache[<<"geo", loc.q>>].lat, S.cache[<<"geo", loc.q>>].lon>>
                  ELSE IF found THEN geo.coords
                  ELSE <<0, 0>>
        method == IF loc.coords # <<>> THEN "gps"
                  ELSE IF cached THEN get(S.cache[<<"geo", loc.q>>], "method", "cache")
                  ELSE IF found THEN geo.method
                  ELSE "none"
        acc == IF loc.coords # <<>> THEN ACC_GPS ELSE ACC_FALLBACK
        cache1 == IF found
                  THEN Put(S.cache, <<"geo", loc.q>>,
                           [lat |-> latlon[1], lon |-> latlon[2], method |-> method])
                  ELSE S.cache
        S1 == [S EXCEPT !.cache = cache1]
    IN
    IF NoLocation(latlon[1], latlon[2])
    THEN WithReply(
            [S1 EXCEPT !.pending = Append(@,
                _create_pending_item(st, item_id, tag, "NEEDS_INFO", "missing_location"))],
            "needs", status_id, r)
    ELSE
    LET snapped == snap[latlon]
        item == _create_pending_item(st, item_id, tag, "PENDING", None)
        full == [k \in DOMAIN item \cup
                       {"lat", "lon", "geocode_method", "location_text", "accuracy_m"} |->
                    CASE k = "lat" -> snapped.lat
                      [] k = "lon" -> snapped.lon
                      [] k = "geocode_method" ->
                            IF snapped.note # "" THEN <<method, snapped.note>>
                            ELSE <<method>>
                      [] k = "location_text" -> st.content.loc
                      [] k = "accuracy_m" -> acc
                      [] OTHER -> item[k]]
    IN  WithReply([S1 EXCEPT !.pending = Append(@, full)], "pending", status_id, r)

\* _publish_item: the entity registry (entities.json) is empty.
_publish_item(S, item) ==
    LET parsed == parse_type_and_medium(item.content)
        feat == [type |-> "Feature",
                 properties |->
                    [item_id |-> item.id,
                     status |-> IF item.event = "present" THEN "present" ELSE "removed",
                     sticker_type |-> parsed.sticker_type,
                     medium |-> IF parsed.medium # None THEN parsed.medium ELSE "sticker",
                     created_date |-> get(item, "created_date", None),
                     media |-> get(item, "media", None),
                     url |-> get(item, "source", None),
                     notes |-> get(item, "notes", None),
                     radius_m |-> get(item, "accuracy_m", 50)],
                 geometry |-> [type |-> "Point", coordinates |-> <<item.lon, item.lat>>]]
        res == attempt_dedup(feat, S.reports)
    IN  IF res.merged THEN [S EXCEPT !.reports = res.features]
        ELSE [S EXCEPT !.reports = Append(S.reports, feat),
                       !.reports_ids = @ \cup {item.id}]

-----------------------------------------------------------------------------
(* What the outside world may answer.                                      *)

EmptyDict == [k \in {} |-> None]

NoObs == [sid |-> 0, resp |-> [code |-> 0, accounts |-> <<>>]]

\* geocode_query_worldwide (hm/domain/location.py): Nominatim alone.
geocode_query_worldwide(q, code) ==
    IF code = 200 THEN [coords |-> GeoTruth(q), method |-> "nominatim"]
    ELSE [coords |-> <<>>, method |-> "none"]

\* The points snap_to_public_way is asked about.
Sites == {SiteA, SiteB, SiteC, SiteD, SiteE, SiteOut, <<0, 0>>}

\* snap_to_public_way when no public way is near: the point and no note.
Unsnapped == [c \in Sites |-> [lat |-> c[1], lon |-> c[2], note |-> ""]]

\* snap_to_public_way when the one public way within its search radius
\* is a footway through the point way: the nearest point of the footway.
SnapOnto(way) ==
    [c \in Sites |->
        IF c \in {SiteA, SiteB, SiteC, SiteE}
        THEN [lat |-> way[1], lon |-> way[2], note |-> "snap_walk:footway"]
        ELSE [lat |-> c[1], lon |-> c[2], note |-> ""]]

\* The footway is 15 m resp. 100 m north of site A.
SnapNear == SnapOnto(SiteB)
SnapFar == SnapOnto(SiteE)

HttpCodes == {200, 500}

ReplyOk == [creds |-> 200, parent |-> TRUE, muted |-> FALSE, code |-> 200]

FavAnswers ==
    { [code |-> 200, accounts |-> <<>>],
      [code |-> 200, accounts |-> <<Eve>>],
      [code |-> 200, accounts |-> <<Eve, Mod>>],
      [code |-> 200, accounts |-> <<ModRemote>>],
      [code |-> 500, accounts |-> <<Mod>>] }

-----------------------------------------------------------------------------
(* hm/core/main_loop.py run_loop: one poll cycle, step by step.            *)

Init ==
    /\ posts = <<>>
    /\ cache = Put(EmptyDict, <<"_last_startup_msg_ts", 0>>, TRUE)
    /\ pending = <<>>
    /\ reports = <<>>
    /\ reports_ids = {}
    /\ pc = "idle"
    /\ tag_i = 1
    /\ timeline = <<>>
    /\ idx = 1
    /\ active_pending = <<>>
    /\ saved = [cache |-> EmptyDict, pending |-> <<>>, reports |-> <<>>]
    /\ sent = <<>>
    /\ obs = NoObs

\* A user posts a status under one of the watched hashtags.
NewPost(kinds) ==
    /\ pc = "idle"
    /\ Len(posts) < MaxPosts
    /\ \E k \in kinds : posts' = Append(posts, Status(Len(posts) + 1, k))
    /\ obs' = NoObs
    /\ UNCHANGED <<cache, pending, reports, reports_ids, pc, tag_i, timeline,
                   idx, active_pending, saved, sent>>

\* Where the cycle goes once the timeline of the t-th of the configured
\* hashtags is handled.
AfterTagOf(tags, t) ==
    IF t < Len(tags)
    THEN pc' = "fetch" /\ tag_i' = t + 1
    ELSE pc' = "process" /\ tag_i' = 1

\* The same with the default hashtags.
AfterTag(t) == AfterTagOf(Tags, t)

\* _ingest_timeline: fetch_timeline of the next hashtag.
FetchTimelineOf(tags) ==
    /\ pc \in {"idle", "fetch"}
    /\ \E code \in HttpCodes :
        LET tl == fetch_timeline(tags[tag_i], code)
        IN  /\ timeline' = tl
            /\ IF tl = <<>> THEN AfterTagOf(tags, tag_i)
               ELSE pc' = "handle" /\ tag_i' = tag_i
    /\ idx' = 1
    /\ active_pending' = <<>>
    /\ obs' = NoObs
    /\ UNCHANGED <<posts, cache, pending, reports, reports_ids, saved, sent>>

FetchTimeline == FetchTimelineOf(Tags)

\* _ingest_timeline: _handle_status of the next status of the timeline.
HandleStatusOf(tags, snaps, replies) ==
    /\ pc = "handle"
    /\ \E code \in HttpCodes, snap \in snaps, r \in replies :
        LET st == Head(timeline)
            q == parse_location(st.content).q
            S == _handle_status(Mem, st, tags[tag_i],
                                geocode_query_worldwide(q, code), snap, r)
        IN  /\ cache' = S.cache
            /\ pending' = S.pending
            /\ reports' = S.reports
            /\ reports_ids' = S.reports_ids
            /\ sent' = S.sent
    /\ timeline' = Tail(timeline)
    /\ IF Tail(timeline) = <<>> THEN AfterTagOf(tags, tag_i)
       ELSE pc' = "handle" /\ tag_i' = tag_i
    /\ obs' = NoObs
    /\ UNCHANGED <<posts, idx, active_pending, saved>>

HandleStatus(snaps, replies) == HandleStatusOf(Tags, snaps, replies)

SeenCount(f) == get(f.properties, "seen_count", 1)

\* _process_pending: one turn of the loop over self.pending.
ProcessItem ==
    /\ pc = "process"
    /\ idx <= Len(pending)
    /\ LET item == pending[idx]
       IN  IF item.status # "PENDING"
           THEN /\ active_pending' = Append(active_pending, item)
                /\ obs' = NoObs
                /\ UNCHANGED <<reports, reports_ids>>
           ELSE \E resp \in FavAnswers :
                /\ obs' = [sid |-> item.status_id, resp |-> resp]
                /\ IF is_approved_by_fav(resp, load_trusted_accounts)
                   THEN /\ \A i \in 1..Len(reports) : SeenCount(reports[i]) < MaxSeen
                        /\ LET S == _publish_item(Mem, item)
                           IN  /\ reports' = S.reports
                               /\ reports_ids' = S.reports_ids
                        /\ active_pending' = active_pending
                   ELSE /\ active_pending' = Append(active_pending, item)
                        /\ UNCHANGED <<reports, reports_ids>>
    /\ idx' = idx + 1
    /\ UNCHANGED <<posts, cache, pending, pc, tag_i, timeline, saved, sent>>

\* The end of _process_pending and of the loop body of run_loop:
\* normalize_reports_geojson, then save_json of the three documents.
EndCycle ==
    /\ pc = "process"
    /\ idx > Len(pending)
    /\ pending' = active_pending
    /\ reports' = normalize_reports_geojson(reports)
    /\ saved' = [cache |-> cache, pending |-> active_pending,
                 reports |-> normalize_reports_geojson(reports)]
    /\ pc' = "idle"
    /\ idx' = 1
    /\ active_pending' = <<>>
    /\ obs' = NoObs
    /\ UNCHANGED <<posts, cache, reports_ids, tag_i, timeline, sent>>

Cycle ==
    \/ FetchTimeline
    \/ HandleStatus({Unsnapped}, {ReplyOk})
    \/ ProcessItem
    \/ EndCycle

Next == NewPost(LifecycleKinds) \/ Cycle

Spec == Init /\ [][Next]_vars

NextDedup == NewPost(DedupKinds) \/ Cycle

SpecDedup == Init /\ [][NextDedup]_vars

\* Statuses of the snap specification: coordinates and an address.
SnapKinds ==
    { Kind({ReportTag}, TRUE, TRUE, LocCoords(SiteA), "AfD"),
      Kind({ReportTag}, TRUE, TRUE, LocQuery("Hauptstrasse 5, Springfield"), "AfD") }

MaxSnapPosts == 2   \* statuses ever posted in the snap specification

\* A user posts a status.
SnapPost == Len(posts) < MaxSnapPosts /\ NewPost(SnapKinds)

\* The poll cycle when snap_to_public_way may find a footway near the
\* point or 100 m away.
NextSnap ==
    \/ SnapPost
    \/ FetchTimeline
    \/ HandleStatus({Unsnapped, SnapNear, SnapFar}, {ReplyOk})
    \/ ProcessItem
    \/ EndCycle

SpecSnap == Init /\ [][NextSnap]_vars

-----------------------------------------------------------------------------
(* bot.py main / main_once: the legacy poll cycle.                         *)
(*                                                                         *)
(* SpecBot starts from a pending.json an earlier ingest has written and a  *)
(* reports.geojson of features in the product schema; the hashtag          *)
(* timelines bring nothing new, so the ingest loop of main_once has no     *)
(* status to handle.  Between two cycles a user may edit a source post.    *)
(* The source posts of published features are not edited and get no        *)
(* replies, and entities.json is empty: update_features_from_context finds *)
(* no flag to apply and enrich_entities_idle nothing to enrich.  The       *)
(* popup helper fields the maintenance functions add to the properties     *)
(* (media0, identity_*, lat, lon, *_ym) are not modelled.                  *)

MaxStore == 2   \* items and features of the documents the cycle starts from
MaxFeatures == 1 \* features of the reports.geojson the cycle starts from

\* cfg["accuracy"] defaults of main_once.
BotAccGps == 10
BotAccNode == 10
BotAccNearest == 25
BotAccDefault == 25
BotAccFallback == 50

\* load_trusted_set: the base handles of the reviewers.
load_trusted_set == {a.user : a \in load_trusted_accounts}

\* norm_type: (s or "unknown").strip().lower().
norm_type(s) == IF s \in {None, ""} THEN "unknown" ELSE Lower(s)

\* The PENDING item the ingest loop writes for a report with coordinates.
BotPendingItem(i, event) ==
    [id |-> ItemId(i), status_id |-> i, status |-> "PENDING", event |-> event,
     tag |-> IF event = "removed" THEN RemovedTag ELSE ReportTag,
     source |-> Url(i), created_at |-> Dates[i], created_date |-> Dates[i],
     lat |-> SiteA[1], lon |-> SiteA[2],
     accuracy_m |-> BotAccGps, radius_m |-> BotAccGps,
     geocode_method |-> <<"gps">>, location_text |-> LocCoords(SiteA),
     sticker_type |-> "AfD", notes |-> "",
     removed_at |-> IF event = "removed" THEN Dates[i] ELSE None,
     media |-> <<ImageUrl(i)>>]

\* The NEEDS_INFO item the ingest loop writes for a report it cannot place.
BotNeedsItem(i, error, location_text) ==
    [id |-> ItemId(i), status_id |-> i, status |-> "NEEDS_INFO", event |-> "present",
     tag |-> ReportTag, source |-> Url(i),
     created_at |-> Dates[i], created_date |-> Dates[i],
     lat |-> 0, lon |-> 0,
     accuracy_m |-> BotAccFallback, radius_m |-> BotAccFallback,
     geocode_method |-> <<"none">>, location_text |-> location_text,
     sticker_type |-> "unknown", removed_at |-> None,
     media |-> <<ImageUrl(i)>>, error |-> error]

\* cfg.get("loc_conflict_m", 150.0) of the ingest loop.
BotLocConflict == 150

\* The conflict check of the ingest loop: the text holds a coordinate pair
\* and an address line the providers place farther away than the threshold.
location_conflict(content) ==
    /\ content.loc.kind = "coords"
    /\ "q" \in DOMAIN content.loc
    /\ haversine_m(content.loc.coords[1], content.loc.coords[2],
                   GeoTruth(content.loc.q)[1], GeoTruth(content.loc.q)[2]) > BotLocConflict

\* The NEEDS_INFO item the ingest loop writes for a report whose
\* coordinates and address disagree.
BotConflictItem(i, content) ==
    [k \in DOMAIN BotNeedsItem(i, "location_conflict", LocNone) \cup {"replied"} |->
        CASE k = "geocode_method" -> <<"location_conflict">>
          [] k = "location_text" -> LocQuery(content.loc.q)
          [] k = "sticker_type" -> parse_type_and_medium(content).sticker_type
          [] k = "replied" -> <<"location_conflict">>
          [] OTHER -> BotNeedsItem(i, "location_conflict", LocNone)[k]]

BotKinds ==
    {"report", "removed", "no_location", "geocode_failed", "location_conflict",
     "missing_mention"}

\* The status behind an item of the store.
BotStatus(i, k) ==
    Status(i, CASE k = "report" ->
                    Kind({ReportTag}, TRUE, TRUE, LocCoords(SiteA), "AfD")
                [] k = "removed" ->
                    Kind({RemovedTag}, TRUE, TRUE, LocCoords(SiteA), "AfD")
                [] k = "no_location" ->
                    Kind({ReportTag}, TRUE, TRUE, LocNone, "")
                [] k = "published" ->
                    Kind({ReportTag}, TRUE, TRUE, LocCoords(SiteC), "NPD")
                [] k = "missing_mention" ->
                    Kind({ReportTag}, FALSE, TRUE, LocCoords(SiteA), "AfD")
                [] k = "location_conflict" ->
                    Kind({ReportTag}, TRUE, TRUE,
                         LocBoth(SiteA, "Bahnhofstrasse 1, Shelbyville"), "AfD")
                [] OTHER ->
                    Kind({ReportTag}, TRUE, TRUE, LocQuery("Nowhere 1"), ""))

BotItem(i, k) ==
    CASE k = "report" -> BotPendingItem(i, "present")
      [] k = "removed" -> BotPendingItem(i, "removed")
      [] k = "no_location" -> BotNeedsItem(i, "missing_location", LocNone)
      [] k = "location_conflict" -> BotConflictItem(i, BotStatus(i, k).content)
      [] k = "missing_mention" ->
            [BotNeedsItem(i, "missing_mention", LocNone) EXCEPT
                !.sticker_type = parse_type_and_medium(BotStatus(i, k).content).sticker_type]
      [] OTHER -> BotNeedsItem(i, "geocode_failed", LocQuery("Nowhere 1"))

\* is_approved_by_fav of bot.py: any failure of the lookup counts as no.
bot_is_approved_by_fav(resp, trusted_set) ==
    /\ trusted_set # {}
    /\ resp.code = 200
    /\ \E i \in 1..Len(resp.accounts) : resp.accounts[i].user \in trusted_set

\* reply_once of bot.py; r is what the instance answers to the DELETE of
\* the previous reply and to the POST of the new one.
bot_reply_once(c, s, kind, status_id, r) ==
    LET key == <<kind, status_id>>
        by_status == <<"_reply_by_status", status_id>>
    IN  IF key \in DOMAIN c
        THEN [cache |-> c, sent |-> s, ok |-> TRUE, persisted |-> FALSE]
        ELSE
        LET prev == get(c, by_status, None)
            s1 == IF prev # None /\ r.del
                  THEN SelectSeq(s, LAMBDA m : ~(m.to = status_id /\ m.kind = prev))
                  ELSE s
        IN  IF r.code \in {200, 201}
            THEN [cache |-> Put(Put(c, by_status, kind), key, TRUE),
                  sent |-> Append(s1, [to |-> status_id, kind |-> kind]),
                  ok |-> TRUE, persisted |-> TRUE]
            ELSE [cache |-> c, sent |-> s1, ok |-> FALSE, persisted |-> FALSE]

\* The names make_product_feature can read: its parameters and the names
\* bound at module level.
MakeProductFeatureParams ==
    {"item_id", "source_url", "status_id", "instance_url", "status", "sticker_type",
     "created_date", "lat", "lon", "accuracy_m", "radius_m", "geocode_method",
     "location_text", "media", "notes", "removed_at"}

BotModuleNames == {"maybe_idle_enrich_entities", "log_line", "len", "int"}

\* make_product_feature: its first statement reads still_pending.
make_product_feature(a) ==
    IF "still_pending" \notin MakeProductFeatureParams \cup BotModuleNames
    THEN [raised |-> "NameError"]
    ELSE [raised |-> None,
          feature |->
            [type |-> "Feature",
             geometry |-> [type |-> "Point", coordinates |-> <<a.lon, a.lat>>],
             properties |->
                [id |-> a.item_id, source |-> a.source_url, status_id |-> a.status_id,
                 status |-> a.status, sticker_type |-> a.sticker_type,
                 notes |-> a.notes, first_seen |-> a.created_date,
                 last_seen |-> a.created_date, seen_count |-> 1,
                 removed_at |-> a.removed_at, accuracy_m |-> a.accuracy_m,
                 radius_m |-> a.radius_m, geocode_method |-> a.geocode_method,
                 location_text |-> a.location_text, media |-> a.media]]]

\* The radius the dupe merge reads: radius_m or accuracy_m or ACC_DEFAULT.
BotRadius(p) == IntOr(p, "radius_m", IntOr(p, "accuracy_m", BotAccDefault))

BotMatches(f, new_feat) ==
    LET new_type == norm_type(get(new_feat.properties, "sticker_type", None))
        ex_type == norm_type(get(f.properties, "sticker_type", None))
        coords == f.geometry.coordinates
    IN  /\ Len(coords) = 2
        /\ (new_type = "unknown" \/ ex_type = "unknown" \/ new_type = ex_type)
        /\ haversine_m(new_feat.geometry.coordinates[2], new_feat.geometry.coordinates[1],
                       coords[2], coords[1])
            <= Max(BotRadius(f.properties), BotRadius(new_feat.properties))

BotMergeUpdate(p, new_p, new_status, new_removed_at, created_date) ==
    LET ex_r == BotRadius(p)
        new_r == BotRadius(new_p)
        p1 == Put(Put(p, "last_seen", created_date),
                  "seen_count", get(p, "seen_count", 1) + 1)
        p2 == IF new_status = "present"
              THEN Put(Put(p1, "status", "present"), "removed_at", None)
              ELSE Put(Put(p1, "status", "removed"), "removed_at", new_removed_at)
        p3 == IF norm_type(get(p, "sticker_type", None)) = "unknown"
                 /\ norm_type(get(new_p, "sticker_type", None)) # "unknown"
              THEN Put(p2, "sticker_type", get(new_p, "sticker_type", "unknown"))
              ELSE p2
        p4 == Put(Put(p3, "accuracy_m",
                      Min(get(p, "accuracy_m", ex_r), get(new_p, "accuracy_m", new_r))),
                  "radius_m", Min(get(p, "radius_m", ex_r), get(new_p, "radius_m", new_r)))
    IN  Put(p4, "media", MergeMedia(ListOr(p, "media"), ListOr(new_p, "media")))

\* The dupe merge of the publish loop: (features, reports_ids) after it.
BotPublish(features, ids, new_feat, item) ==
    LET hit == {i \in 1..Len(features) : BotMatches(features[i], new_feat)}
    IN  IF hit = {}
        THEN [features |-> Append(features, new_feat), ids |-> ids \cup {item.id}]
        ELSE LET i == CHOOSE j \in hit : \A k \in hit : j <= k
             IN  [features |->
                    [features EXCEPT ![i].properties =
                        BotMergeUpdate(features[i].properties, new_feat.properties,
                                       IF item.event = "removed" THEN "removed"
                                       ELSE "present",
                                       get(item, "removed_at", None),
                                       item.created_date)],
                  ids |-> ids]

\* A feature of reports.geojson in the product schema, published from the
\* status i; origin tells whether instance_url is the configured instance.
BotFeature(i, origin) ==
    [type |-> "Feature",
     geometry |-> [type |-> "Point", coordinates |-> <<SiteC[2], SiteC[1]>>],
     properties |->
        [id |-> ItemId(i), source |-> Url(i), status_id |-> i,
         instance_url |-> IF origin THEN "https://instance" ELSE "https://other.example",
         status |-> "present", sticker_type |-> "NPD", notes |-> "",
         first_seen |-> Dates[i], last_seen |-> Dates[i], seen_count |-> 1,
         removed_at |-> None, accuracy_m |-> BotAccGps, radius_m |-> BotAccGps,
         geocode_method |-> <<"gps">>, location_text |-> LocCoords(SiteC),
         media |-> <<ImageUrl(i)>>]]

\* fetch_status: pub is the answer to the request without token, auth the
\* answer to the one with token (0 stands for a network error or timeout);
\* the second request is made only to the configured instance.
bot_fetch_status(origin, pub, auth) ==
    IF pub = 200 THEN "status"
    ELSE IF ~origin THEN None
    ELSE IF auth \in {404, 410} THEN "StatusDeleted"
    ELSE IF auth = 200 THEN "status"
    ELSE None

\* What the instance and the geocoder may answer to main_once.
ProbeAnswers ==
    { [pub |-> 200, auth |-> 200], [pub |-> 404, auth |-> 404],
      [pub |-> 404, auth |-> 200], [pub |-> 0, auth |-> 410],
      [pub |-> 0, auth |-> 500], [pub |-> 404, auth |-> 0] }

\* The answers are those of a confirmed deletion: the request with token to
\* the configured instance was made and answered 404 or 410.
ProbeSawDeletion(origin, pr) == origin /\ pr.pub # 200 /\ pr.auth \in {404, 410}

\* The answers to the requests a function makes: none when it makes none.
AnswersIf(asked, answers) == IF asked THEN answers ELSE {CHOOSE a \in answers : TRUE}

\* Retry of a geocode: the favourited-by lookup made first, the geocoder.
RetryAnswers ==
    { [fav |-> 200, geo |-> 200], [fav |-> 200, geo |-> 500],
      [fav |-> 404, geo |-> 200], [fav |-> 500, geo |-> 200] }

BotReplyAnswers == {[code |-> 200, del |-> TRUE], [code |-> 500, del |-> TRUE]}

BotFavAnswers == FavAnswers \cup {[code |-> 404, accounts |-> <<>>]}

\* The favourited-by answers for a published feature.
PruneFavAnswers ==
    { [code |-> 200, accounts |-> <<Eve, Mod>>], [code |-> 200, accounts |-> <<>>],
      [code |-> 500, accounts |-> <<Mod>>], [code |-> 404, accounts |-> <<>>] }

\* The retry of the geocode of one NEEDS_INFO item at the start of main_once.
RetryGeocode(it, ans) ==
    IF it.status # "NEEDS_INFO" \/ get(it, "error", None) # "geocode_failed" THEN it
    ELSE IF ans.fav \in {404, 410}
    THEN Put(Put(it, "status", "DROPPED"), "error", "status_deleted")
    ELSE IF it.location_text.kind # "query" \/ ans.geo # 200 THEN it
    ELSE LET c == GeoTruth(it.location_text.q)
         IN  [k \in DOMAIN it \ {"error"} |->
                CASE k = "lat" -> c[1]
                  [] k = "lon" -> c[2]
                  [] k = "geocode_method" -> <<"nominatim">>
                  [] k = "accuracy_m" -> BotAccDefault
                  [] k = "radius_m" -> BotAccDefault
                  [] k = "status" -> "PENDING"
                  [] OTHER -> it[k]]

\* The refresh of an edited NEEDS_INFO item in the publish loop: st is
\* the status as fetched, with coordinates in its text
\* (replied_pending is read for its truth value only: None is FALSE).
RefreshNeedsInfo(item, st) ==
    LET coords == parse_location(st.content).coords
    IN  [k \in DOMAIN item \cup {"error", "replied_pending"} |->
            CASE k = "lat" -> coords[1]
              [] k = "lon" -> coords[2]
              [] k = "accuracy_m" -> BotAccGps
              [] k = "radius_m" -> BotAccGps
              [] k = "geocode_method" -> <<"gps">>
              [] k = "location_text" -> LocCoords(coords)
              [] k = "sticker_type" -> parse_type_and_medium(st.content).sticker_type
              [] k = "error" -> None
              [] k = "status" -> "PENDING"
              [] k = "replied_pending" -> FALSE
              [] OTHER -> item[k]]

\* The elements of a list whose index is in keep, in list order.
RECURSIVE KeepIdx(_, _)
KeepIdx(seq, keep) ==
    IF seq = <<>> THEN <<>>
    ELSE LET rest == KeepIdx(SubSeq(seq, 1, Len(seq) - 1), keep)
         IN  IF Len(seq) \in keep THEN Append(rest, seq[Len(seq)]) ELSE rest

\* derive_status_ref: the feature names a status of the configured instance.
OnOrigin(f) == f.properties.instance_url = "https://instance"

\* verify_deleted_features: probes[i] is what the instances answer to
\* fetch_status for the i-th feature; the features that are kept.
verify_deleted_features(features, probes) ==
    KeepIdx(features,
            {i \in 1..Len(features) :
                ~(/\ features[i].properties.status \in {"present", "removed", "unknown"}
                  /\ bot_fetch_status(OnOrigin(features[i]), probes[i].pub,
                                      probes[i].auth) = "StatusDeleted")})

\* update_features_from_context for unedited sources without replies: a
\* feature whose source is deleted is kept, marked unknown, with a note.
update_features_from_context(features, probes) ==
    [i \in 1..Len(features) |->
        IF bot_fetch_status(OnOrigin(features[i]), probes[i].pub, probes[i].auth)
                = "StatusDeleted"
        THEN [features[i] EXCEPT !.properties =
                Put(Put(@, "status", "unknown"), "notes", "source deleted")]
        ELSE features[i]]

UnfavKey(sid) == <<"_unfav", sid>>

\* prune_unfav_published: favs[i] is the favourited-by answer for the i-th
\* feature, late[i] tells whether its timer is older than the grace window.
\* The indices of the features that are kept.
UnfavKept(features, c, favs, late) ==
    {i \in 1..Len(features) :
        \/ bot_is_approved_by_fav(favs[i], load_trusted_set)
        \/ UnfavKey(features[i].properties.status_id) \notin DOMAIN c
        \/ ~late[i]}

\* The timers of cache["_unfav"] after prune_unfav_published.
UnfavTimers(features, c, favs, late) ==
    LET sidOf(i) == features[i].properties.status_id
        cleared == {UnfavKey(sidOf(i)) : i \in
                      {j \in 1..Len(features) :
                          \/ bot_is_approved_by_fav(favs[j], load_trusted_set)
                          \/ j \notin UnfavKept(features, c, favs, late)}}
        started == {UnfavKey(sidOf(i)) : i \in
                      {j \in 1..Len(features) :
                          ~bot_is_approved_by_fav(favs[j], load_trusted_set)}}
    IN  [k \in (DOMAIN c \ cleared) \cup (started \ cleared) |->
            IF k \in DOMAIN c THEN c[k] ELSE TRUE]

prune_unfav_published(features, c, favs, late) ==
    [features |-> KeepIdx(features, UnfavKept(features, c, favs, late)),
     cache |-> UnfavTimers(features, c, favs, late)]

\* prune_deleted_published: fetch_status of the status id on the
\* configured instance; the features that are kept.
prune_deleted_published(features, probes) ==
    KeepIdx(features,
            {i \in 1..Len(features) :
                bot_fetch_status(TRUE, probes[i].pub, probes[i].auth) # "StatusDeleted"})

\* The day of the poll cycle, counted like DayOf: 2026-01-31, thirty days
\* after the first date of Dates.
Today == 31

StaleAfterDays == 30  \* days without confirmation after which present is stale

\* apply_stale_rule: every present feature whose last_seen lies
\* StaleAfterDays or more before today becomes unknown.
apply_stale_rule(feats) ==
    [j \in 1..Len(feats) |->
        IF feats[j].properties.status = "present"
           /\ Today - DayOf(feats[j].properties.last_seen) >= StaleAfterDays
        THEN [feats[j] EXCEPT !.properties.status = "unknown"]
        ELSE feats[j]]

InitBot ==
    /\ \E n \in 0..MaxStore, m \in 0..MaxFeatures :
       \E ks \in [1..n -> BotKinds], os \in [1..m -> BOOLEAN] :
        /\ n + m >= 1
        /\ n + m <= MaxStore
        /\ posts = [i \in 1..(n + m) |->
                        IF i <= n THEN BotStatus(i, ks[i]) ELSE BotStatus(i, "published")]
        /\ saved = [cache |-> EmptyDict,
                    pending |-> [i \in 1..n |-> BotItem(i, ks[i])],
                    reports |-> [j \in 1..m |-> BotFeature(n + j, os[j])]]
    /\ cache = EmptyDict
    /\ pending = <<>>
    /\ reports = <<>>
    /\ reports_ids = {}
    /\ pc = "idle"
    /\ tag_i = 1
    /\ timeline = <<>>
    /\ idx = 1
    /\ active_pending = <<>>
    /\ sent = <<>>
    /\ obs = NoObs

\* Between two cycles the author of a report that gives no coordinates
\* edits it: the text now holds an address or a coordinate pair.
BotEdit ==
    /\ pc = "idle"
    /\ \E i \in 1..Len(posts),
          loc \in {LocQuery("Hauptstrasse 5, Springfield"), LocCoords(SiteB)} :
        /\ \A j \in 1..Len(saved.reports) : saved.reports[j].properties.status_id # i
        /\ posts[i].content.loc.kind # "coords"
        /\ posts[i].content.loc # loc
        /\ posts' = [posts EXCEPT ![i].content.loc = loc]
    /\ obs' = NoObs
    /\ UNCHANGED <<cache, pending, reports, reports_ids, pc, tag_i, timeline,
                   idx, active_pending, saved, sent>>

\* main_once up to the publish loop: load the documents, retry the geocode
\* of NEEDS_INFO items, verify_deleted_features,
\* update_features_from_context (reports.geojson is written when either
\* changed a feature), build reports_ids; the ingest loop finds no status.
BotLoad ==
    /\ pc = "idle"
    /\ cache' = saved.cache
    /\ \E a \in AnswersIf(\E i \in 1..Len(saved.pending) :
                                /\ saved.pending[i].status = "NEEDS_INFO"
                                /\ get(saved.pending[i], "error", None) = "geocode_failed",
                            RetryAnswers),
          vp \in [1..Len(saved.reports) -> ProbeAnswers],
          cp \in AnswersIf(saved.reports # <<>>, ProbeAnswers) :
        LET ans == [i \in 1..Len(saved.pending) |-> a]
            verified == verify_deleted_features(saved.reports, vp)
            feats == update_features_from_context(
                        verified, [i \in 1..Len(verified) |-> cp])
        IN  /\ pending' = [i \in 1..Len(saved.pending) |->
                              RetryGeocode(saved.pending[i], ans[i])]
            /\ reports' = feats
            /\ reports_ids' = {feats[i].properties.id : i \in 1..Len(feats)}
            /\ saved' = IF feats # saved.reports THEN [saved EXCEPT !.reports = feats]
                        ELSE saved
            /\ obs' = [sid |-> 0, resp |-> NoObs.resp,
                       gone |->
                         {saved.pending[i].status_id : i \in
                            {j \in 1..Len(saved.pending) :
                                /\ saved.pending[j].status = "NEEDS_INFO"
                                /\ get(saved.pending[j], "error", None) = "geocode_failed"
                                /\ ans[j].fav \in {404, 410}}}
                         \cup {saved.reports[i].properties.status_id : i \in
                            {j \in 1..Len(saved.reports) :
                                \/ ProbeSawDeletion(OnOrigin(saved.reports[j]), vp[j])
                                \/ ProbeSawDeletion(OnOrigin(saved.reports[j]), cp)}}]
    /\ pc' = "process"
    /\ idx' = 1
    /\ active_pending' = <<>>
    /\ UNCHANGED <<posts, tag_i, timeline, sent>>

\* The exception leaves main_once: main logs it and sleeps; what the cycle
\* held in memory is lost, what it has written to disk stays.
BotAbort(disk) ==
    /\ saved' = disk
    /\ cache' = EmptyDict
    /\ pending' = <<>>
    /\ reports' = <<>>
    /\ reports_ids' = {}
    /\ pc' = "idle"
    /\ idx' = 1
    /\ active_pending' = <<>>

\* The publish loop appends the item to still_pending and goes on.
BotKept(it) ==
    /\ active_pending' = Append(active_pending, it)
    /\ idx' = idx + 1
    /\ UNCHANGED <<cache, pending, reports, reports_ids, pc, saved, sent>>

\* The publish loop goes on without the item.
BotDropped ==
    /\ idx' = idx + 1
    /\ UNCHANGED <<cache, pending, reports, reports_ids, pc, active_pending, saved, sent>>

\* The publish loop on a NEEDS_INFO item: pr is what the instance answers
\* to fetch_status.
BotRefresh(item, pr) ==
    LET res == bot_fetch_status(TRUE, pr.pub, pr.auth)
        st == posts[item.status_id]
    IN  /\ obs' = [sid |-> item.status_id, resp |-> NoObs.resp,
                   gone |-> IF ProbeSawDeletion(TRUE, pr)
                            THEN {item.status_id} ELSE {}]
        /\ CASE res = "StatusDeleted" -> BotDropped
              [] res = "status" /\ parse_location(st.content).coords # <<>>
                    -> BotKept(RefreshNeedsInfo(item, st))
              [] OTHER -> BotKept(item)

\* One turn of the publish loop of main_once.
BotTurn ==
    /\ pc = "process"
    /\ idx <= Len(pending)
    /\ LET item == pending[idx]
       IN  IF item.status = "NEEDS_INFO"
           THEN \E pr \in ProbeAnswers : BotRefresh(item, pr)
           ELSE IF item.status # "PENDING"
           THEN obs' = NoObs /\ BotKept(item)
           ELSE IF item.id \in reports_ids
           THEN obs' = NoObs /\ BotDropped
           ELSE \E r \in BotReplyAnswers, resp \in BotFavAnswers :
                LET asked == ~get(item, "replied_pending", FALSE)
                    rep == IF asked
                           THEN bot_reply_once(cache, sent, "pending", item.status_id, r)
                           ELSE [cache |-> cache, sent |-> sent, ok |-> FALSE,
                                 persisted |-> FALSE]
                    item1 == IF asked /\ rep.ok THEN Put(item, "replied_pending", TRUE)
                             ELSE item
                    disk == IF rep.persisted THEN [saved EXCEPT !.cache = rep.cache]
                            ELSE saved
                    res == make_product_feature(
                              [item_id |-> item.id, source_url |-> item.source,
                               status_id |-> item.status_id,
                               status |-> IF item.event = "removed" THEN "removed"
                                          ELSE "present",
                               sticker_type |-> OrUnknown(item, "sticker_type"),
                               created_date |-> item.created_date,
                               lat |-> item.lat, lon |-> item.lon,
                               accuracy_m |-> get(item, "accuracy_m", BotAccDefault),
                               radius_m |-> get(item, "radius_m",
                                                get(item, "accuracy_m", BotAccDefault)),
                               geocode_method |-> item.geocode_method,
                               location_text |-> item.location_text,
                               media |-> item.media, notes |-> get(item, "notes", ""),
                               removed_at |-> get(item, "removed_at", None)])
                IN  /\ obs' = [sid |-> item.status_id, resp |-> resp,
                               gone |-> IF resp.code \in {404, 410}
                                        THEN {item.status_id} ELSE {}]
                    /\ sent' = rep.sent
                    /\ IF ~bot_is_approved_by_fav(resp, load_trusted_set)
                       THEN /\ active_pending' = Append(active_pending, item1)
                            /\ cache' = rep.cache
                            /\ saved' = disk
                            /\ idx' = idx + 1
                            /\ UNCHANGED <<pending, reports, reports_ids, pc>>
                       ELSE IF res.raised # None
                       THEN BotAbort(disk)
                       ELSE LET pub == BotPublish(reports, reports_ids, res.feature, item)
                            IN  /\ reports' = pub.features
                                /\ reports_ids' = pub.ids
                                /\ cache' = rep.cache
                                /\ saved' = disk
                                /\ idx' = idx + 1
                                /\ UNCHANGED <<pending, pc, active_pending>>
    /\ UNCHANGED <<posts, tag_i, timeline>>

\* The end of main_once: prune_unfav_published, prune_deleted_published,
\* then cache and the items that are left are written; reports.geojson is
\* written when a feature was changed or removed, else it holds them as is.
BotFinish ==
    /\ pc = "process"
    /\ idx > Len(pending)
    /\ \E favs \in [1..Len(reports) -> PruneFavAnswers],
          late \in [1..Len(reports) -> BOOLEAN],
          pr \in AnswersIf(reports # <<>>, ProbeAnswers) :
        LET unfav == prune_unfav_published(reports, cache, favs, late)
            feats == prune_deleted_published(
                        unfav.features, [i \in 1..Len(unfav.features) |-> pr])
        IN  /\ saved' = [cache |-> unfav.cache,
                         pending |-> SelectSeq(active_pending,
                                               LAMBDA it : it.status # "DROPPED"),
                         reports |-> feats]
            /\ obs' = [sid |-> 0, resp |-> NoObs.resp,
                       gone |->
                         {reports[i].properties.status_id : i \in
                            {j \in 1..Len(reports) :
                                \/ favs[j].code \in {404, 410}
                                \/ ProbeSawDeletion(TRUE, pr)}}]
    /\ cache' = EmptyDict
    /\ pending' = <<>>
    /\ reports' = <<>>
    /\ reports_ids' = {}
    /\ pc' = "idle"
    /\ idx' = 1
    /\ active_pending' = <<>>
    /\ UNCHANGED <<posts, tag_i, timeline, sent>>

NextBot == BotEdit \/ BotLoad \/ BotTurn \/ BotFinish

SpecBot == InitBot /\ [][NextBot]_vars

\* The turn of the publish loop on a NEEDS_INFO item when the public
\* fetch of its status is answered with 200.
BotTurnAnswered ==
    /\ pc = "process"
    /\ idx <= Len(pending)
    /\ pending[idx].status = "NEEDS_INFO"
    /\ BotRefresh(pending[idx], [pub |-> 200, auth |-> 200])
    /\ UNCHANGED <<posts, tag_i, timeline>>

\* The cycle with what main's loop and a working instance guarantee:
\* main calls main_once again after every sleep, a started cycle runs to
\* its end, and the instance does not refuse the status of an item for
\* ever.
SpecBotLive ==
    /\ SpecBot
    /\ WF_vars(BotLoad)
    /\ WF_vars(BotTurn)
    /\ WF_vars(BotFinish)
    /\ SF_vars(BotTurnAnswered)

-----------------------------------------------------------------------------
(* geocode_query_worldwide of bot.py and of hm/domain/location.py as       *)
(* functions of the query and of what the map providers answer.  SpecGeo   *)
(* draws a query and the answers and applies one of the two; obs holds the *)
(* lookup: the requests made, in order, and the value returned.            *)

CrossQuery == "intersection of Hauptstrasse and Bahnhofstrasse, Springfield"

GeoQueries == {"Hauptstrasse 5, Springfield", CrossQuery}

\* RE_INTERSECTION.match(query): the groups, no group without a match.
RE_INTERSECTION(q) ==
    IF q = CrossQuery
    THEN [a |-> "Hauptstrasse", b |-> "Bahnhofstrasse", city |-> "Springfield"]
    ELSE EmptyDict

\* What the providers answer: Overpass to the shared-node and to the
\* geometry query, Nominatim to the full query and to "a, city" and
\* "b, city".  "error" and "raise" are a network error, a timeout or an
\* answer other than 200.
GeoAnswers ==
    [node : {"hit", "miss", "error"}, geom : {"hit", "miss", "error"},
     full : {"hit", "miss", "raise"}, a : {"hit", "miss", "raise"},
     b : {"hit", "miss", "raise"}]

\* The outcome of a call: it raised, or it returned and found something
\* or nothing.
Outcome(raised, hit) == [raised |-> raised, hit |-> hit]

\* The call without a handler around it: the exception leaves the caller.
Propagate(r) == r

\* try: <call> / except Exception: pass (continue, return None): the
\* exception ends in the handler and the caller goes on as after a miss.
ExceptPass(r) == Outcome(FALSE, ~r.raised /\ r.hit)

\* requests.get / requests.post and the reading of the answer.
Request(a) == Outcome(a \in {"error", "raise"}, a = "hit")

\* _overpass_post: every endpoint is tried inside try/except.
overpass_post(a) == ExceptPass(Request(a))

\* geocode_nominatim of bot.py: raise_for_status and no handler.
bot_geocode_nominatim(a) == Request(a)

\* geocode_nominatim of hm/domain/location.py: the handler is inside.
hm_geocode_nominatim(a) == ExceptPass(Request(a))

\* The value a lookup returns, the requests it made, and whether an
\* exception left it.
Returned(coords, method, calls) ==
    [coords |-> coords, method |-> method, calls |-> calls, raised |-> FALSE]

Raised(calls) == [coords |-> <<>>, method |-> None, calls |-> calls, raised |-> TRUE]

\* overpass_intersection: the result (method None when both queries fail)
\* and the requests made.
overpass_intersection(ans) ==
    LET n == overpass_post(ans.node)
        g == overpass_post(ans.geom)
    IN  IF n.raised THEN Raised(<<"overpass_node">>)
        ELSE IF n.hit THEN Returned(SiteA, "overpass_node", <<"overpass_node">>)
        ELSE IF g.raised THEN Raised(<<"overpass_node", "overpass_geom">>)
        ELSE IF g.hit
        THEN Returned(SiteB, "overpass_nearest", <<"overpass_node", "overpass_geom">>)
        ELSE Returned(<<>>, None, <<"overpass_node", "overpass_geom">>)

\* geocode_query_worldwide of bot.py.
bot_geocode_query_worldwide(q, ans) ==
    LET m == RE_INTERSECTION(q)
        full == ExceptPass(bot_geocode_nominatim(ans.full))
        sa == ExceptPass(bot_geocode_nominatim(ans.a))
        sb == ExceptPass(bot_geocode_nominatim(ans.b))
    IN  IF DOMAIN m # {}
        THEN LET res == overpass_intersection(ans)
                 c1 == Append(res.calls, "nominatim")
                 c2 == Append(c1, "nominatim_a")
                 c3 == Append(c2, "nominatim_b")
             IN  IF res.raised \/ res.coords # <<>> THEN res
                 ELSE IF full.raised THEN Raised(c1)
                 ELSE IF full.hit THEN Returned(GeoTruth(q), "nominatim", c1)
                 ELSE IF sa.raised THEN Raised(c2)
                 ELSE IF sa.hit THEN Returned(SiteC, "fallback", c2)
                 ELSE IF sb.raised THEN Raised(c3)
                 ELSE IF sb.hit THEN Returned(SiteD, "fallback", c3)
                 ELSE Returned(<<>>, "none", c3)
        ELSE IF full.raised THEN Raised(<<"nominatim">>)
        ELSE IF full.hit THEN Returned(GeoTruth(q), "nominatim", <<"nominatim">>)
        ELSE Returned(<<>>, "none", <<"nominatim">>)

\* geocode_query_worldwide of hm/domain/location.py with its one request.
hm_geocode_query_worldwide(q, ans) ==
    LET c == hm_geocode_nominatim(ans.full)
        res == geocode_query_worldwide(q, IF c.hit THEN 200 ELSE 500)
    IN  IF c.raised THEN Raised(<<"nominatim">>)
        ELSE Returned(res.coords, res.method, <<"nominatim">>)

InitGeo ==
    /\ posts = <<>>
    /\ cache = EmptyDict
    /\ pending = <<>>
    /\ reports = <<>>
    /\ reports_ids = {}
    /\ pc = "idle"
    /\ tag_i = 1
    /\ timeline = <<>>
    /\ idx = 1
    /\ active_pending = <<>>
    /\ saved = [cache |-> EmptyDict, pending |-> <<>>, reports |-> <<>>]
    /\ sent = <<>>
    /\ \E q \in GeoQueries, ans \in GeoAnswers :
            obs = [impl |-> "none", q |-> q, ans |-> ans]

GeoLookupBot ==
    /\ obs.impl = "none"
    /\ obs' = [impl |-> "bot", q |-> obs.q, ans |-> obs.ans,
               res |-> bot_geocode_query_worldwide(obs.q, obs.ans)]
    /\ UNCHANGED <<posts, cache, pending, reports, reports_ids, pc, tag_i, timeline,
                   idx, active_pending, saved, sent>>

GeoLookupHm ==
    /\ obs.impl = "none"
    /\ obs' = [impl |-> "hm", q |-> obs.q, ans |-> obs.ans,
               res |-> hm_geocode_query_worldwide(obs.q, obs.ans)]
    /\ UNCHANGED <<posts, cache, pending, reports, reports_ids, pc, tag_i, timeline,
                   idx, active_pending, saved, sent>>

NextGeo == GeoLookupBot \/ GeoLookupHm

SpecGeo == InitGeo /\ [][NextGeo]_vars

-----------------------------------------------------------------------------
(* bot.py main_once, the ingest loop: one iteration for a new status that  *)
(* has a photo and the mention.  SpecIntake runs the iterations one after  *)
(* the other on the geocode cache; obs holds what the last one did.        *)

MaxIntake == 2  \* statuses the ingest loop handles

\* cfg.get("snap_max_m", 50.0).
BotSnapMax == 50

\* The guard of the ingest loop and of maybe_snap_to_public_way around the
\* answer s of snap_to_public_way for the point c: the point, the method
\* and the snap note that result.
SnapGuard(c, method, s) ==
    IF s.note = "" THEN [lat |-> c[1], lon |-> c[2], method |-> method, note |-> <<>>]
    ELSE IF haversine_m(c[1], c[2], s.lat, s.lon) <= BotSnapMax
    THEN [lat |-> s.lat, lon |-> s.lon, method |-> Append(method, s.note),
          note |-> <<s.note>>]
    ELSE [lat |-> c[1], lon |-> c[2], method |-> method,
          note |-> <<s.note, "rejected", haversine_m(c[1], c[2], s.lat, s.lon)>>]

\* maybe_snap_to_public_way with snap_enabled and snap_allow_gps at their
\* defaults (True, False).
maybe_snap_to_public_way(c, method, snap) ==
    IF method # <<>> /\ method[1] = "gps"
    THEN [lat |-> c[1], lon |-> c[2], method |-> method, note |-> <<"snap_skipped:gps">>]
    ELSE SnapGuard(c, method, snap[c])

\* The accuracy the ingest loop assigns to the method of the geocoder.
BotAccuracyOf(method) ==
    CASE method = "overpass_node" -> BotAccNode
      [] method = "overpass_nearest" -> BotAccNearest
      [] method = "fallback" -> BotAccFallback
      [] OTHER -> BotAccDefault

\* The location part of one iteration: c is the cache, geo what
\* geocode_query_worldwide returns for the query, snap what
\* snap_to_public_way answers.  looked tells whether the geocoder was
\* called, resolved is the point before the snap.
bot_resolve_location(content, c, geo, snap) ==
    LET loc == parse_location(content)
        key == <<"geo", loc.q>>
    IN  IF loc.coords # <<>>
        THEN LET g == SnapGuard(loc.coords, <<"gps">>, snap[loc.coords])
             IN  [found |-> TRUE, conflict |-> location_conflict(content),
                  lat |-> g.lat, lon |-> g.lon, method |-> g.method,
                  accuracy_m |-> BotAccGps, radius_m |-> BotAccGps,
                  cache |-> c, looked |-> FALSE, hit |-> FALSE, resolved |-> loc.coords]
        ELSE IF loc.q = None
        THEN [found |-> FALSE, conflict |-> FALSE, error |-> "missing_location",
              cache |-> c, looked |-> FALSE, hit |-> FALSE, resolved |-> <<>>]
        ELSE IF key \in DOMAIN c
        THEN LET e == c[key]
                 g == maybe_snap_to_public_way(<<e.lat, e.lon>>, e.method, snap)
             IN  [found |-> TRUE, conflict |-> FALSE,
                  lat |-> g.lat, lon |-> g.lon, method |-> g.method,
                  accuracy_m |-> e.accuracy_m, radius_m |-> e.radius_m,
                  cache |-> c, looked |-> FALSE, hit |-> TRUE, resolved |-> <<e.lat, e.lon>>]
        ELSE IF geo.coords = <<>>
        THEN [found |-> FALSE, conflict |-> FALSE, error |-> "geocode_failed",
              cache |-> c, looked |-> TRUE, hit |-> FALSE, resolved |-> <<>>]
        ELSE LET g == maybe_snap_to_public_way(geo.coords, <<geo.method>>, snap)
                 acc == BotAccuracyOf(geo.method)
             IN  [found |-> TRUE, conflict |-> FALSE,
                  lat |-> g.lat, lon |-> g.lon, method |-> g.method,
                  accuracy_m |-> acc, radius_m |-> acc,
                  cache |-> Put(c, key, [lat |-> g.lat, lon |-> g.lon, method |-> g.method,
                                         accuracy_m |-> acc, radius_m |-> acc,
                                         snap_note |-> g.note]),
                  looked |-> TRUE, hit |-> FALSE, resolved |-> geo.coords]

\* The PENDING item of the ingest loop for the i-th status.
BotIngestItem(i, st, res) ==
    [k \in DOMAIN BotPendingItem(i, "present") |->
        CASE k = "lat" -> res.lat
          [] k = "lon" -> res.lon
          [] k = "accuracy_m" -> res.accuracy_m
          [] k = "radius_m" -> res.radius_m
          [] k = "geocode_method" -> res.method
          [] k = "location_text" -> st.content.loc
          [] k = "sticker_type" -> parse_type_and_medium(st.content).sticker_type
          [] OTHER -> BotPendingItem(i, "present")[k]]

\* Statuses with photo and mention: coordinates, an address, a crossing,
\* no location.
IntakeKinds ==
    { Kind({ReportTag}, TRUE, TRUE, LocCoords(SiteA), "AfD"),
      Kind({ReportTag}, TRUE, TRUE, LocQuery("Hauptstrasse 5, Springfield"), "AfD"),
      Kind({ReportTag}, TRUE, TRUE, LocQuery(CrossQuery), "AfD"),
      Kind({ReportTag}, TRUE, TRUE, LocNone, "") }

\* The providers' answers of the intake: each tier alone finds the place,
\* or none does.
Answer(node, geom, full, a, b) ==
    [node |-> node, geom |-> geom, full |-> full, a |-> a, b |-> b]

IntakeAnswers ==
    { Answer("hit", "miss", "miss", "miss", "miss"),
      Answer("miss", "hit", "miss", "miss", "miss"),
      Answer("error", "error", "hit", "miss", "miss"),
      Answer("miss", "miss", "raise", "hit", "miss"),
      Answer("error", "error", "raise", "raise", "raise") }

SnapWorlds == {Unsnapped, SnapNear, SnapFar}

InitIntake ==
    /\ posts = <<>>
    /\ cache = EmptyDict
    /\ pending = <<>>
    /\ reports = <<>>
    /\ reports_ids = {}
    /\ pc = "idle"
    /\ tag_i = 1
    /\ timeline = <<>>
    /\ idx = 1
    /\ active_pending = <<>>
    /\ saved = [cache |-> EmptyDict, pending |-> <<>>, reports |-> <<>>]
    /\ sent = <<>>
    /\ obs = NoObs

\* One iteration of the ingest loop: a user has posted the status, the
\* hashtag timeline returns it.
BotIngest ==
    /\ Len(posts) < MaxIntake
    /\ \E k \in IntakeKinds, ans \in IntakeAnswers, snap \in SnapWorlds,
          r \in BotReplyAnswers :
        LET i == Len(posts) + 1
            st == Status(i, k)
            q == parse_location(st.content).q
            res == bot_resolve_location(st.content, cache,
                                        bot_geocode_query_worldwide(q, ans), snap)
            kind == IF res.conflict THEN "loc_conflict"
                    ELSE IF res.found THEN "pending"
                    ELSE IF res.error = "geocode_failed" THEN "needs" ELSE "missing_loc"
            rep == bot_reply_once(res.cache, sent, kind, i, r)
            item == IF res.conflict THEN BotConflictItem(i, st.content)
                    ELSE IF ~res.found
                    THEN BotNeedsItem(i, res.error, st.content.loc)
                    ELSE IF rep.ok
                    THEN Put(BotIngestItem(i, st, res), "replied_pending", TRUE)
                    ELSE BotIngestItem(i, st, res)
        IN  /\ posts' = Append(posts, st)
            /\ pending' = Append(pending, item)
            /\ cache' = rep.cache
            /\ sent' = rep.sent
            /\ obs' = [sid |-> i, resp |-> NoObs.resp, looked |-> res.looked,
                       hit |-> res.hit, resolved |-> res.resolved]
    /\ UNCHANGED <<reports, reports_ids, pc, tag_i, timeline, idx, active_pending, saved>>

NextIntake == BotIngest

SpecIntake == InitIntake /\ [][NextIntake]_vars

-----------------------------------------------------------------------------
(* snap_to_public_way itself (hm/domain/location.py and bot.py hold the    *)
(* same text).  The point is SiteA; everything lies on its meridian, one   *)
(* unit is one metre, off is the distance of an element north of the       *)
(* point.  A way runs east-west; ux = 1 when its geometry is listed        *)
(* eastwards and -1 when westwards, so its normal (-uy, ux) points north   *)
(* or south.  A note is the sequence of its parts, <<>> the empty note.    *)

R_M == 120  \* base search radius for highways

R_WALK_M == 220  \* radius of the second, walkways-only search

OFFSET_ROAD_M == 10  \* sideways offset from a road centerline

OFFSET_BUILDING_M == 14  \* extra push of a road snap near a building

OFFSET_WALK_M == 4  \* nudge of a walkway snap near a building

PoiRadius == 15  \* radius of the street-furniture search

WalkAcceptM == 45  \* a walkway of the second search is taken up to here

OsmTags(hw, access, foot, service, indoor) ==
    [highway |-> hw, access |-> access, foot |-> foot, service |-> service,
     indoor |-> indoor, leisure |-> ""]

\* An OSM way element; private is what the way is, tags what OSM says.
Way(tags, off, ux, private) ==
    [type |-> "way", tags |-> tags, off |-> off, ux |-> ux, private |-> private]

\* An OSM node element of the street-furniture query.
Bench(access, off, private) ==
    [type |-> "node",
     tags |-> [highway |-> "", access |-> access, foot |-> "", service |-> "",
               indoor |-> "", leisure |-> "bench"],
     off |-> off, ux |-> 0, private |-> private]

Footway15 == Way(OsmTags("footway", "", "", "", ""), 15, 1, FALSE)

Driveway == Way(OsmTags("service", "private", "", "driveway", ""), 5, 1, TRUE)

PrivatePath == Way(OsmTags("path", "", "private", "", ""), 0 - 8, 1, TRUE)

RoadNorthE == Way(OsmTags("residential", "", "", "", ""), 20, 1, FALSE)

RoadNorthW == Way(OsmTags("residential", "", "", "", ""), 20, 0 - 1, FALSE)

RoadSouthE == Way(OsmTags("tertiary", "", "", "", ""), 0 - 30, 1, FALSE)

Track == Way(OsmTags("track", "", "", "", ""), 3, 1, FALSE)

OsmWays == {Footway15, Driveway, PrivatePath, RoadNorthE, RoadNorthW, RoadSouthE, Track}

\* What _overpass_post returns: None when every endpoint failed (ok FALSE),
\* else the document with its elements.
Data(ok, elements) == [ok |-> ok, elements |-> elements]

NoData == Data(FALSE, <<>>)

\* The elements of S an "around:r" query returns.
Around(r, S) == {e \in S : Abs(e.off) <= r}

\* Every answer a query can get: no data, or a list of at most two of the
\* elements of S.
Answers(S) ==
    {NoData} \cup {Data(TRUE, s) : s \in {<<>>} \cup {<<a>> : a \in S}
                                   \cup {<<a, b>> : a, b \in S}}

\* The map data around the point: the answers to the street-furniture
\* query, to the building query at the chosen furniture, to the highway
\* query within R_M, to the walkway query within R_WALK_M and to the
\* building query at the snapped point.
OsmWorlds ==
    [poi : {NoData, Data(TRUE, <<>>)}
           \cup {Data(TRUE, <<e>>) :
                   e \in Around(PoiRadius, {Bench("", 6, FALSE), Bench("private", 6, TRUE)})},
     poi_building : {NoData, Data(TRUE, <<>>), Data(TRUE, <<"building">>)},
     ways : Answers(Around(R_M, OsmWays)),
     walk : {NoData, Data(TRUE, <<>>)}
            \cup {Data(TRUE, <<e>>) :
                    e \in Around(R_WALK_M,
                                 {Way(OsmTags("footway", "", "", "", ""), 40, 1, FALSE),
                                  Way(OsmTags("footway", "", "", "", ""), 60, 1, FALSE)})},
     building : {NoData, Data(TRUE, <<>>), Data(TRUE, <<"building">>)}]

\* "if not data ...: return []; elems = data.get('elements') or []".
ElementsOf(data) == IF data.ok THEN data.elements ELSE <<>>

\* A snapper that takes every way, whatever its tags say.
AllPublic(tags) == TRUE

is_public(tags) ==
    IF tags.access \in {"private", "no"} THEN FALSE
    ELSE IF tags.foot \in {"no", "private"} THEN FALSE
    ELSE IF tags.highway = "service" /\ tags.service \in {"driveway", "parking_aisle"}
        THEN FALSE
    ELSE IF tags.indoor \in {"yes", "1", "true"} THEN FALSE
    ELSE TRUE

building_nearby(data) == ElementsOf(data) # <<>>

walk_hw == {"footway", "path", "pedestrian", "steps", "cycleway"}

road_hw == {"living_street", "residential", "service", "unclassified", "tertiary",
            "secondary", "primary"}

KindOfWay(hw) == IF hw \in walk_hw THEN "walk" ELSE IF hw \in road_hw THEN "road" ELSE "other"

\* The better of the candidate w and the best one so far, compared by
\* distance only (nearest_public_poi and the second search).
Nearer(best, w) ==
    IF DOMAIN best = {} \/ Abs(w.off) < Abs(best.off) THEN w ELSE best

\* The same for the first search: a walkway beats a road, and within one
\* kind the nearer way wins.
Preferred(best, w) ==
    IF DOMAIN best = {} THEN w
    ELSE IF KindOfWay(best.tags.highway) # "walk" /\ KindOfWay(w.tags.highway) = "walk" THEN w
    ELSE IF KindOfWay(best.tags.highway) = KindOfWay(w.tags.highway)
            /\ Abs(w.off) < Abs(best.off) THEN w
    ELSE best

RECURSIVE BestOf(_, _, _, _)
BestOf(Better(_, _), cands, i, best) ==
    IF i > Len(cands) THEN best
    ELSE BestOf(Better, cands, i + 1, Better(best, cands[i]))

nearest_public_poi(data) ==
    BestOf(Nearer,
           SelectSeq(ElementsOf(data), LAMBDA e : e.type = "node" /\ is_public(e.tags)),
           1, EmptyDict)

collect_candidates(elems) ==
    SelectSeq(elems, LAMBDA e : /\ e.type = "way"
                                /\ e.tags.highway # ""
                                /\ is_public(e.tags)
                                /\ KindOfWay(e.tags.highway) # "other")

\* The normal of the road offset: (-uy, ux), turned round when it points
\* away from the original point.  v is the vector from the snapped point
\* to the original one.
OffsetNormal(w) ==
    LET n == w.ux
        v == 0 - w.off
    IN  IF v * n < 0 THEN 0 - n ELSE n

\* The normal of the building push as the code computes it: (-uy, ux)
\* again, not turned.
PushNormal(w) == w.ux

\* The result for the point c in the world o: <<lat, lon, note>>.
snap_to_public_way(c, o) ==
    LET poi == nearest_public_poi(o.poi)
        cands == collect_candidates(ElementsOf(o.ways))
        first == BestOf(Preferred, cands, 1, EmptyDict)
        best_walk == BestOf(Nearer, collect_candidates(ElementsOf(o.walk)), 1, EmptyDict)
    IN  IF DOMAIN poi # {} /\ ~building_nearby(o.poi_building)
            THEN <<c[1] + poi.off, c[2], <<"snap_poi", "bench">>>>
        ELSE IF cands = <<>> THEN <<c[1], c[2], <<>>>>
        ELSE
            LET w == IF KindOfWay(first.tags.highway) = "road" /\ DOMAIN best_walk # {}
                        /\ Abs(best_walk.off) <= WalkAcceptM
                     THEN best_walk ELSE first
                kind == KindOfWay(w.tags.highway)
                y1 == IF kind = "road" THEN w.off + OffsetNormal(w) * OFFSET_ROAD_M
                      ELSE w.off
                note == IF kind = "road" THEN <<"snap_road_offset", w.tags.highway>>
                        ELSE <<"snap_walk", w.tags.highway>>
            IN  IF ~building_nearby(o.building) THEN <<c[1] + y1, c[2], note>>
                ELSE IF kind = "road"
                    THEN <<c[1] + y1 + PushNormal(w) * OFFSET_BUILDING_M, c[2],
                           Append(note, "avoid_building")>>
                ELSE <<c[1] + y1 + PushNormal(w) * OFFSET_WALK_M, c[2],
                       Append(note, "avoid_building")>>

InitWay ==
    /\ posts = <<>>
    /\ cache = EmptyDict
    /\ pending = <<>>
    /\ reports = <<>>
    /\ reports_ids = {}
    /\ pc = "idle"
    /\ tag_i = 1
    /\ timeline = <<>>
    /\ idx = 1
    /\ active_pending = <<>>
    /\ saved = [cache |-> EmptyDict, pending |-> <<>>, reports |-> <<>>]
    /\ sent = <<>>
    /\ \E o \in OsmWorlds : obs = [impl |-> "none", c |-> SiteA, osm |-> o]

SnapCall ==
    /\ obs.impl = "none"
    /\ obs' = [impl |-> "snap", c |-> obs.c, osm |-> obs.osm,
               res |-> snap_to_public_way(obs.c, obs.osm)]
    /\ UNCHANGED <<posts, cache, pending, reports, reports_ids, pc, tag_i, timeline,
                   idx, active_pending, saved, sent>>

NextWay == SnapCall

SpecWay == InitWay /\ [][NextWay]_vars

-----------------------------------------------------------------------------
(* save_json (hm/utils/files.py; bot.py holds the same text) called by two *)
(* processes on one path.  In SpecSave the variable saved is the directory *)
(* of the path: a function from the names of the files that exist to their *)
(* contents, a content being the sequence of the chunks written.  obs      *)
(* holds each process's position in save_json and its local variables.     *)

Writers == {1, 2}

MaxSaves == 2  \* calls of save_json per process

MaxTmp == 3  \* random names mkstemp can pick from

Chunks == 2  \* writes that carry one document to the disk

\* The path save_json is asked to write.
Target == <<"pending.json", 0>>

TmpNames == {<<"pending.json", r>> : r \in 1..MaxTmp}

\* The text json.dumps gives for the document d, cut into its chunks.
Dumped(d) == [k \in 1..Chunks |-> <<d[1], d[2], k>>]

\* The document process w saves in its call number c; <<0, 0>> is the one
\* on disk at the start.
Docs == {<<0, 0>>} \cup (Writers \X (1..MaxSaves))

Hole == <<0, 0, 0>>

\* tmp_name = None: the call holds no temporary file.
NoName == <<>>

\* A file name taken without looking whether it exists: path + ".tmp".
FixedTmp(dir) == {<<"pending.json", 1>>}

\* tempfile.mkstemp(prefix, suffix, dir): a name no file of the directory
\* has, opened with O_EXCL.
mkstemp(dir) == {n \in TmpNames : n \notin DOMAIN dir}

\* A write of chunk ch at offset k of the file with the content text.
WriteAt(text, k, ch) ==
    [i \in 1..Max(Len(text), k + 1) |->
        IF i = k + 1 THEN ch ELSE IF i <= Len(text) THEN text[i] ELSE Hole]

\* os.replace / unlink take the name n out of the directory.
Without(dir, n) == [x \in DOMAIN dir \ {n} |-> dir[x]]

\* The finally block: the descriptor is closed and the temporary file, if
\* its name is still held, is unlinked (missing_ok).
Cleanup(dir, tmp_name) == IF tmp_name = NoName THEN dir ELSE Without(dir, tmp_name)

Proc(at, calls, tmp_name, k) ==
    [at |-> at, calls |-> calls, tmp_name |-> tmp_name, k |-> k]

InitSave ==
    /\ posts = <<>>
    /\ cache = EmptyDict
    /\ pending = <<>>
    /\ reports = <<>>
    /\ reports_ids = {}
    /\ pc = "idle"
    /\ tag_i = 1
    /\ timeline = <<>>
    /\ idx = 1
    /\ active_pending = <<>>
    /\ sent = <<>>
    /\ saved = [n \in {Target} |-> Dumped(<<0, 0>>)]
    /\ obs = [w \in Writers |-> Proc("idle", 0, NoName, 0)]

SaveFrame ==
    UNCHANGED <<posts, cache, pending, reports, reports_ids, pc, tag_i, timeline,
                idx, active_pending, sent>>

\* save_json is entered and mkstemp creates the temporary file.
SaveOpen(w) ==
    /\ obs[w].at \in {"idle", "done", "failed"}
    /\ obs[w].calls < MaxSaves
    /\ \E n \in mkstemp(saved) :
        /\ saved' = Put(saved, n, <<>>)
        /\ obs' = [obs EXCEPT ![w] = Proc("open", obs[w].calls + 1, n, 0)]
    /\ SaveFrame

\* save_json is entered and mkstemp raises: nothing was created.
SaveOpenFails(w) ==
    /\ obs[w].at \in {"idle", "done", "failed"}
    /\ obs[w].calls < MaxSaves
    /\ obs' = [obs EXCEPT ![w] = Proc("failed", obs[w].calls + 1, NoName, 0)]
    /\ UNCHANGED saved
    /\ SaveFrame

\* One chunk of the text reaches the temporary file.
SaveWrite(w) ==
    /\ obs[w].at = "open"
    /\ obs[w].k < Chunks
    /\ obs[w].tmp_name \in DOMAIN saved
    /\ saved' = [saved EXCEPT ![obs[w].tmp_name] =
                    WriteAt(@, obs[w].k, Dumped(<<w, obs[w].calls>>)[obs[w].k + 1])]
    /\ obs' = [obs EXCEPT ![w].k = @ + 1]
    /\ SaveFrame

\* write, flush, fsync or os.replace raises: the finally block cleans up
\* and the exception leaves save_json.
SaveRaises(w) ==
    /\ obs[w].at = "open"
    /\ saved' = Cleanup(saved, obs[w].tmp_name)
    /\ obs' = [obs EXCEPT ![w] = Proc("failed", obs[w].calls, NoName, 0)]
    /\ SaveFrame

\* The text is written and synced; os.replace renames the temporary file
\* onto the path.
SaveReplace(w) ==
    /\ obs[w].at = "open"
    /\ obs[w].k = Chunks
    /\ obs[w].tmp_name \in DOMAIN saved
    /\ saved' = Without(Put(saved, Target, saved[obs[w].tmp_name]), obs[w].tmp_name)
    /\ obs' = [obs EXCEPT ![w] = Proc("done", obs[w].calls, NoName, 0)]
    /\ SaveFrame

\* The process dies inside save_json: no handler runs, the files stay.
SaveCrash(w) ==
    /\ obs[w].at = "open"
    /\ obs' = [obs EXCEPT ![w].at = "crashed"]
    /\ UNCHANGED saved
    /\ SaveFrame

NextSave ==
    \E w \in Writers :
        \/ SaveOpen(w)
        \/ SaveOpenFails(w)
        \/ SaveWrite(w)
        \/ SaveRaises(w)
        \/ SaveReplace(w)
        \/ SaveCrash(w)

SpecSave == InitSave /\ [][NextSave]_vars

-----------------------------------------------------------------------------
(* bot.py main_once with its timeline cursor: iter_statuses reads the      *)
(* since_id of a hashtag from timeline_state.json, fetches the newer       *)
(* statuses and writes the new since_id at once; the ingest loop handles   *)
(* the statuses; pending.json is written at the end of main_once.  In      *)
(* SpecCursor saved holds timeline_state.json next to the other documents. *)

MaxCursorPosts == 3  \* statuses ever posted in the cursor specification

\* What the instance answers to get_hashtag_timeline: the list, an empty
\* list after a 429, or a status raise_for_status turns into an exception.
TimelineCodes == {200, 429, 500}

\* The newest id of a batch; since when the batch is empty.
RECURSIVE NewestId(_, _)
NewestId(statuses, since) ==
    IF statuses = <<>> THEN since
    ELSE NewestId(Tail(statuses), Max(since, Head(statuses).id))

\* sorted(statuses, key=id): the statuses of ids, oldest first.
RECURSIVE OldestFirst(_)
OldestFirst(ids) ==
    IF ids = {} THEN <<>>
    ELSE LET m == CHOOSE i \in ids : \A j \in ids : i <= j
         IN  <<posts[m]>> \o OldestFirst(ids \ {m})

\* get_hashtag_timeline with since_id (0: the backfill of the first run).
get_hashtag_timeline(tag, since_id) ==
    OldestFirst({i \in 1..Len(posts) : tag \in posts[i].content.tags /\ i > since_id})

InitCursor ==
    /\ posts = <<>>
    /\ cache = EmptyDict
    /\ pending = <<>>
    /\ reports = <<>>
    /\ reports_ids = {}
    /\ pc = "idle"
    /\ tag_i = 1
    /\ timeline = <<>>
    /\ idx = 1
    /\ active_pending = <<>>
    /\ saved = [cache |-> EmptyDict, pending |-> <<>>, reports |-> <<>>,
                timeline_state |-> [t \in 1..Len(Tags) |-> 0]]
    /\ sent = <<>>
    /\ obs = NoObs

\* A user posts a report with photo, mention and coordinates.
CursorPost ==
    /\ pc = "idle"
    /\ Len(posts) < MaxCursorPosts
    /\ posts' = Append(posts, BotStatus(Len(posts) + 1, "report"))
    /\ UNCHANGED <<cache, pending, reports, reports_ids, pc, tag_i, timeline,
                   idx, active_pending, saved, sent, obs>>

\* The cycle is left without its saves: an exception leaves main_once, or
\* the process dies.  What was in memory is gone.
CursorLost ==
    /\ cache' = EmptyDict
    /\ pending' = <<>>
    /\ timeline' = <<>>
    /\ pc' = "idle"
    /\ tag_i' = 1

\* iter_statuses on the next hashtag; at the start of the cycle main_once
\* has loaded the documents.
CursorFetch ==
    /\ pc \in {"idle", "fetch"}
    /\ \E code \in TimelineCodes :
        LET since_id == saved.timeline_state[tag_i]
            statuses == IF code = 200 THEN get_hashtag_timeline(Tags[tag_i], since_id)
                        ELSE <<>>
        IN  IF code = 500
            THEN CursorLost /\ UNCHANGED saved
            ELSE /\ saved' = [saved EXCEPT
                                !.timeline_state[tag_i] = NewestId(statuses, since_id)]
                 /\ timeline' = statuses
                 /\ cache' = IF pc = "idle" THEN saved.cache ELSE cache
                 /\ pending' = IF pc = "idle" THEN saved.pending ELSE pending
                 /\ IF statuses = <<>> THEN AfterTag(tag_i)
                    ELSE pc' = "handle" /\ tag_i' = tag_i
    /\ UNCHANGED <<posts, reports, reports_ids, idx, active_pending, sent, obs>>

\* The ingest loop on the next status of the batch.
CursorIngest ==
    /\ pc = "handle"
    /\ \E r \in BotReplyAnswers :
        LET st == Head(timeline)
            i == st.id
            res == bot_resolve_location(st.content, cache,
                        bot_geocode_query_worldwide(parse_location(st.content).q,
                                                    CHOOSE a \in IntakeAnswers : TRUE),
                        Unsnapped)
            rep == bot_reply_once(res.cache, sent, "pending", i, r)
            item == IF rep.ok THEN Put(BotIngestItem(i, st, res), "replied_pending", TRUE)
                    ELSE BotIngestItem(i, st, res)
            known == \/ ItemId(i) \in {saved.reports[j].properties.id :
                                         j \in 1..Len(saved.reports)}
                     \/ \E j \in 1..Len(saved.pending) : saved.pending[j].source = st.url
        IN  IF known
            THEN UNCHANGED <<cache, pending, sent, saved>>
            ELSE /\ pending' = Append(pending, item)
                 /\ cache' = rep.cache
                 /\ sent' = rep.sent
                 /\ saved' = IF rep.persisted THEN [saved EXCEPT !.cache = rep.cache]
                             ELSE saved
    /\ timeline' = Tail(timeline)
    /\ IF Tail(timeline) = <<>> THEN AfterTag(tag_i)
       ELSE pc' = "handle" /\ tag_i' = tag_i
    /\ UNCHANGED <<posts, reports, reports_ids, idx, active_pending, obs>>

\* The rest of main_once when no item is approved: the publish loop keeps
\* every item, and the cache and the queue are written.
CursorFinish ==
    /\ pc = "process"
    /\ saved' = [saved EXCEPT !.cache = cache, !.pending = pending]
    /\ CursorLost
    /\ UNCHANGED <<posts, reports, reports_ids, idx, active_pending, sent, obs>>

\* The process dies, or an exception leaves main_once, after a fetch and
\* before the saves.
CursorAbort ==
    /\ pc \in {"fetch", "handle", "process"}
    /\ CursorLost
    /\ UNCHANGED <<posts, reports, reports_ids, idx, active_pending, saved, sent, obs>>

NextCursor == CursorPost \/ CursorFetch \/ CursorIngest \/ CursorFinish \/ CursorAbort

SpecCursor == InitCursor /\ [][NextCursor]_vars

-----------------------------------------------------------------------------
(* Update replies: hm/core/pipeline.py _handle_status 84-97 and
   _handle_update_reply, with "report_again" among the configured hashtags. *)

MaxReplyPosts == 3   \* the report and the replies under it

AgainTag == "report_again"

\* cfg["hashtags"] of an instance that watches the update hashtags too.
ReplyTags == <<ReportTag, RemovedTag, AgainTag>>

\* The report the replies are written under: status 1.
RootKind == Kind({ReportTag}, TRUE, TRUE, LocCoords(SiteA), "AfD")

\* A reply to status 1: it mentions the bot, carries an image and a
\* position, and one update hashtag.
ReplyKind(tag, account) ==
    [Kind({tag}, TRUE, TRUE, LocCoords(SiteA), "AfD")
        EXCEPT !.in_reply_to_id = 1, !.account = account]

ReplyKinds ==
    { ReplyKind(tag, a) : tag \in {RemovedTag, AgainTag}, a \in {Mod, Eve, ModRemote} }

\* The report is posted first, the replies after it.
NewReply ==
    /\ pc = "idle"
    /\ Len(posts) < MaxReplyPosts
    /\ \E k \in (IF posts = <<>> THEN {RootKind} ELSE ReplyKinds) :
            posts' = Append(posts, Status(Len(posts) + 1, k))
    /\ obs' = NoObs
    /\ UNCHANGED <<cache, pending, reports, reports_ids, pc, tag_i, timeline,
                   idx, active_pending, saved, sent>>

FetchReplies == FetchTimelineOf(ReplyTags)

HandleReply ==
    /\ \A i \in 1..Len(reports) : SeenCount(reports[i]) < MaxSeen
    /\ HandleStatusOf(ReplyTags, {Unsnapped}, {ReplyOk})

NextReply ==
    \/ NewReply
    \/ FetchReplies
    \/ HandleReply
    \/ ProcessItem
    \/ EndCycle

SpecReply == Init /\ [][NextReply]_vars

-----------------------------------------------------------------------------
(* Replies of the bot: hm/adapters/mastodon_api.py reply_once as called by
   _handle_status, with an instance that may refuse the reply.            *)

\* Reports that get each kind of reply, and a report posted from the
\* account of the bot itself.
AckKinds ==
    { Kind({ReportTag}, TRUE, TRUE, LocCoords(SiteA), "AfD"),
      Kind({ReportTag}, TRUE, FALSE, LocCoords(SiteA), "AfD"),
      Kind({ReportTag}, TRUE, TRUE, LocNone, ""),
      [Kind({ReportTag}, TRUE, TRUE, LocCoords(SiteC), "NPD") EXCEPT !.account = BotAcct] }

\* api_post answers 500: reply_once returns False and sets no key.
ReplyDown == [creds |-> 200, parent |-> TRUE, muted |-> FALSE, code |-> 500]

\* _handle_status while the instance accepts replies.
HandleUp == HandleStatus({Unsnapped}, {ReplyOk})

\* _handle_status while the instance refuses them.
HandleDown == HandleStatus({Unsnapped}, {ReplyDown})

NextAck ==
    \/ NewPost(AckKinds)
    \/ FetchTimeline
    \/ HandleUp
    \/ HandleDown
    \/ ProcessItem
    \/ EndCycle

SpecAck == Init /\ [][NextAck]_vars

-----------------------------------------------------------------------------
(* bot.py update_features_from_context, the whole loop body for one feature:
   the source status with its edits, then the replies below it.  Times are
   numbers, 0 standing for an empty or missing time; "" is no #sticker_type
   line.                                                                    *)

MaxRuns == 3         \* polls of the same source and replies
MaxDescendants == 2  \* replies below the source

\* What fetch_status gives: StatusDeleted, None, or the status with what
\* _extract_flags_and_type reads from its text and its edited_at/created_at.
SourceDeleted == [fetch |-> "deleted", removed |-> FALSE, seen |-> FALSE, stype |-> "", time |-> 0]
SourceUnreachable == [fetch |-> "failed", removed |-> FALSE, seen |-> FALSE, stype |-> "", time |-> 0]
SourceStatuses ==
    {SourceDeleted, SourceUnreachable} \cup
    [fetch : {"ok"}, removed : BOOLEAN, seen : BOOLEAN, stype : {"", "afd", "npd"}, time : {1}]

\* The replies of fetch_context: flags, type line and created_at of each.
Descendants == [removed : BOOLEAN, seen : BOOLEAN, stype : {"", "npd"}, time : {2, 3}]

Contexts ==
    {[ok |-> FALSE, descendants |-> <<>>]} \cup
    {[ok |-> TRUE, descendants |-> d] :
        d \in UNION {[1..n -> Descendants] : n \in 0..MaxDescendants}}

\* The properties of a feature as _publish / normalisation left them.
PublishedProps ==
    [status : {"present"}, last_seen : {0, 1}, removed_at : {0}, first_seen : {1},
     sticker_type : {"", "afd"}, seen_count : {1}, notes : {""}]

\* 1) check source status (edits): lines 2217-2237.
context_source(props, st) ==
    LET old_last == props.last_seen
        old_removed == props.removed_at
        old_type == props.sticker_type
        typed == st.stype # "" /\ st.stype # old_type
        p1 == IF typed THEN [props EXCEPT !.sticker_type = st.stype] ELSE props
        ev_time == st.time
    IN  IF st.removed /\ ev_time # 0 /\ ev_time # old_removed
        THEN [props |-> [p1 EXCEPT !.status = "removed", !.removed_at = ev_time,
                                   !.last_seen = ev_time],
              changed |-> (IF typed THEN 1 ELSE 0) + 1]
        ELSE IF st.seen /\ ev_time # 0 /\ ev_time # old_last
        THEN [props |-> [p1 EXCEPT !.last_seen = ev_time,
                                   !.seen_count = @ + 1,
                                   !.status = IF @ # "removed" THEN "present" ELSE @],
              changed |-> (IF typed THEN 1 ELSE 0) + 1]
        ELSE [props |-> p1, changed |-> IF typed THEN 1 ELSE 0]

\* The loop over the descendants: the type lines, in order.
RECURSIVE context_types(_, _, _)
context_types(R, desc, i) ==
    IF i > Len(desc) THEN R
    ELSE IF desc[i].stype # "" /\ desc[i].stype # R.props.sticker_type
    THEN context_types([props |-> [R.props EXCEPT !.sticker_type = desc[i].stype],
                        changed |-> R.changed + 1], desc, i + 1)
    ELSE context_types(R, desc, i + 1)

\* best_seen / best_removed: the latest time among the flagged replies.
Latest(desc, flag) ==
    LET times == {desc[i].time : i \in {j \in 1..Len(desc) : desc[j][flag] /\ desc[j].time # 0}}
    IN  IF times = {} THEN 0 ELSE CHOOSE t \in times : \A u \in times : u <= t

\* 2) check replies (context descendants): lines 2248-2279.
context_replies(R, ctx) ==
    IF ~ctx.ok THEN R
    ELSE
    LET T == context_types(R, ctx.descendants, 1)
        best_seen == Latest(ctx.descendants, "seen")
        best_removed == Latest(ctx.descendants, "removed")
        p == T.props
    IN  IF best_removed # 0 /\ (p.removed_at = 0 \/ best_removed > p.removed_at)
        THEN [props |-> [p EXCEPT !.status = "removed", !.removed_at = best_removed,
                                  !.last_seen = best_removed],
              changed |-> T.changed + 1]
        ELSE IF best_seen # 0 /\ (p.last_seen = 0 \/ best_seen > p.last_seen)
        THEN [props |-> [p EXCEPT !.last_seen = best_seen,
                                  !.seen_count = @ + 1,
                                  !.status = IF @ # "removed" THEN "present" ELSE @],
              changed |-> T.changed + 1]
        ELSE T

\* One turn of the loop of update_features_from_context: the feature
\* afterwards and what the turn adds to `changed`.
context_update(props, st, ctx) ==
    IF st.fetch = "deleted"
    THEN [props |-> [props EXCEPT !.status = "unknown", !.notes = "source deleted"],
          changed |-> 1]
    ELSE
    LET S == IF st.fetch = "ok" THEN context_source(props, st)
             ELSE [props |-> props, changed |-> 0]
        R == context_replies(S, ctx)
        p == R.props
    IN  IF p.status = "removed" /\ p.removed_at = 0
        THEN [R EXCEPT !.props.removed_at = IF p.last_seen # 0 THEN p.last_seen
                                            ELSE p.first_seen]
        ELSE R

InitContext ==
    /\ posts = <<>>
    /\ cache = EmptyDict
    /\ pending = <<>>
    /\ reports = <<>>
    /\ reports_ids = {}
    /\ pc = "idle"
    /\ tag_i = 1
    /\ timeline = <<>>
    /\ idx = 1
    /\ active_pending = <<>>
    /\ saved = [cache |-> EmptyDict, pending |-> <<>>, reports |-> <<>>]
    /\ sent = <<>>
    /\ \E p \in PublishedProps, st \in SourceStatuses, ctx \in Contexts :
            obs = [props |-> p, st |-> st, ctx |-> ctx, runs |-> 0,
                   before |-> p, changed |-> 0]

\* One poll cycle calls update_features_from_context; the source and the
\* replies are what they were.
ContextRun ==
    /\ obs.runs < MaxRuns
    /\ LET R == context_update(obs.props, obs.st, obs.ctx)
       IN  obs' = [obs EXCEPT !.props = R.props, !.changed = R.changed,
                              !.before = obs.props, !.runs = @ + 1]
    /\ UNCHANGED <<posts, cache, pending, reports, reports_ids, pc, tag_i, timeline,
                   idx, active_pending, saved, sent>>

NextContext == ContextRun

SpecContext == InitContext /\ [][NextContext]_vars

-----------------------------------------------------------------------------
(* hm/core/main_loop.py run_loop(cfg, one_shot=True): the loop around the
   poll cycle.  pc = "idle" is time.sleep(60) at the end of the loop body,
   after which `while True` runs the body again; pc = "returned" is the
   end of run_loop.                                                        *)

\* except Exception (150-153) with one_shot: an exception leaves the loop
\* body during the cycle, the loop breaks, and the shutdown block
\* (155-172) saves cache, pipeline.pending and reports.
CycleFails ==
    /\ pc \in {"fetch", "handle", "process"}
    /\ saved' = [cache |-> cache, pending |-> pending, reports |-> reports]
    /\ pc' = "returned"
    /\ obs' = NoObs
    /\ UNCHANGED <<posts, cache, pending, reports, reports_ids, tag_i, timeline,
                   idx, active_pending, sent>>

NextOneShot ==
    \/ NewPost(AckKinds)
    \/ FetchTimeline
    \/ HandleStatus({Unsnapped}, {ReplyOk})
    \/ ProcessItem
    \/ EndCycle
    \/ CycleFails

SpecOneShot == Init /\ [][NextOneShot]_vars

-----------------------------------------------------------------------------
(* Vocabulary of the properties.                                           *)

\* The publish loop is about to look at the item pending[idx].
Turn == pc = "process" /\ idx <= Len(pending)

\* An account of the allow-list: its full or its base handle is listed.
AllowListed(a) ==
    a \in load_trusted_accounts \/ Acct(a.user, "") \in load_trusted_accounts

\* The favourited-by list the instance returned holds an allow-listed account.
TrustedFav(resp) ==
    resp.code = 200 /\ \E i \in 1..Len(resp.accounts) : AllowListed(resp.accounts[i])

FeatureIds(r) == [i \in 1..Len(r) |-> r[i].properties.item_id]

IsPrefix(s, t) == Len(s) <= Len(t) /\ SubSeq(t, 1, Len(s)) = s

\* The item has a position other than the placeholder (0, 0).
Resolved(item) ==
    /\ "lat" \in DOMAIN item
    /\ "lon" \in DOMAIN item
    /\ ~(item.lat = 0 /\ item.lon = 0)

\* The candidate a pending item stands for: category, radius, position.
CandCategory(item) ==
    IF item.content.type_line = "" THEN "unknown" ELSE item.content.type_line

CandRadius(item) == item.accuracy_m

FeatLat(f) == f.geometry.coordinates[2]

Within(f, item) ==
    Abs(FeatLat(f) - item.lat) <= Max(f.properties.radius_m, CandRadius(item))

CategoriesAgree(a, b) == a = b \/ a = "unknown" \/ b = "unknown"

\* The matching rule with the category texts compared as written.
MatchAsWritten(f, item) ==
    Within(f, item) /\ CategoriesAgree(f.properties.sticker_type, CandCategory(item))

\* The matching rule with the category texts compared after lower-casing.
MatchFolded(f, item) ==
    /\ Within(f, item)
    /\ CategoriesAgree(Lower(f.properties.sticker_type), Lower(CandCategory(item)))

-----------------------------------------------------------------------------
(* C1: an item is published only in a turn of the publish loop in which    *)
(* the favourited-by list returned for its source post holds an            *)
(* allow-listed account; a PENDING item looked at without such a favourite *)
(* is kept in the queue and the published collection is left as it was.    *)

-----------------------------------------------------------------------------
(* C2: a NEEDS_INFO item is never published: the publish loop keeps it and *)
(* changes no feature; whatever is published was a PENDING item with a     *)
(* resolved position, and no feature sits at the placeholder (0, 0).       *)

C2_NeedsInfoNeverPublished ==
    [][ (Turn /\ idx' = idx + 1)
            => /\ pending[idx].status = "NEEDS_INFO"
                    => /\ reports' = reports
                       /\ reports_ids' = reports_ids
                       /\ active_pending' = Append(active_pending, pending[idx])
               /\ reports' # reports
                    => pending[idx].status = "PENDING" /\ Resolved(pending[idx])
               /\ \A i \in 1..Len(reports') :
                    reports'[i].geometry.coordinates # <<0, 0>>
      ]_vars

\* The publish loop has just kept a NEEDS_INFO item while features exist.
C2_Witness ==
    /\ pc = "process"
    /\ idx > 1
    /\ idx - 1 <= Len(pending)
    /\ pending[idx - 1].status = "NEEDS_INFO"
    /\ Contains(active_pending, pending[idx - 1])
    /\ reports # <<>>

-----------------------------------------------------------------------------
(* C3: no two features carry the same item id or stem from the same source *)
(* post, and the pending queue never holds two items with one source URL.  *)

Distinct(s) == \A i, j \in 1..Len(s) : i # j => s[i] # s[j]

C3_Unique ==
    /\ Distinct(FeatureIds(reports))
    /\ Distinct([i \in 1..Len(reports) |-> reports[i].properties.url])
    /\ Distinct([i \in 1..Len(pending) |-> pending[i].source])
    /\ Distinct([i \in 1..Len(active_pending) |-> active_pending[i].source])

\* A published post is returned again, by the timeline of its second hashtag.
C3_Witness ==
    /\ pc = "handle"
    /\ tag_i = 2
    /\ ItemId(Head(timeline).id) \in reports_ids
    /\ Head(timeline).content.tags = {ReportTag, RemovedTag}
    /\ Len(reports) >= 2
    /\ pending # <<>>

-----------------------------------------------------------------------------
(* Vocabulary of the dedup properties.                                     *)

\* The turn of the publish loop took the item pending[idx] out of the queue.
Consumed ==
    /\ Turn
    /\ idx' = idx + 1
    /\ pending[idx].status = "PENDING"
    /\ active_pending' = active_pending

\* The item was merged into an existing feature resp. appended as a new one.
Merged == Consumed /\ Len(reports') = Len(reports)

Inserted == Consumed /\ Len(reports') = Len(reports) + 1

\* The approval lookup of the last turn succeeded and its item was merged.
LastTurnMerged ==
    /\ pc = "process"
    /\ obs.sid # 0
    /\ TrustedFav(obs.resp)
    /\ ItemId(obs.sid) \notin reports_ids

\* The accuracy of a feature; one without the field has that of its radius.
FeatAccuracy(p) == get(p, "accuracy_m", p.radius_m)

-----------------------------------------------------------------------------
(* C5 as amended: a published candidate is merged exactly when some        *)
(* feature lies within the larger of the two radii and the two category    *)
(* texts, compared after lower-casing, are equal or one of them is         *)
(* "unknown"; otherwise it is appended as a feature of its own.            *)

C5_MatchFolded ==
    [][ Consumed
            => /\ Merged \/ Inserted
               /\ Merged <=> \E i \in 1..Len(reports) :
                                MatchFolded(reports[i], pending[idx])
      ]_vars

\* C5 as stated: the same rule with the category texts compared as written.
C5_MatchAsWritten ==
    [][ Consumed
            => /\ Merged \/ Inserted
               /\ Merged <=> \E i \in 1..Len(reports) :
                                MatchAsWritten(reports[i], pending[idx])
      ]_vars

\* A report of category "afd" was merged into a feature of category "AfD".
C5_Witness ==
    /\ LastTurnMerged
    /\ posts[obs.sid].content.type_line = "afd"
    /\ \E i \in 1..Len(reports) :
        /\ reports[i].properties.sticker_type = "AfD"
        /\ SeenCount(reports[i]) >= 2

-----------------------------------------------------------------------------
(* C6: a merge keeps the number of features, raises the seen_count of the  *)
(* matched feature by exactly 1, sets its last_seen to the date of the     *)
(* candidate and touches no other feature; a candidate of the category and *)
(* position of the only, once-seen feature leaves one feature, seen twice. *)

C6_Merge ==
    [][ /\ Merged
            => \E i \in 1..Len(reports) :
                /\ MatchFolded(reports[i], pending[idx])
                /\ "seen_count" \in DOMAIN reports'[i].properties
                /\ reports'[i].properties.seen_count = SeenCount(reports[i]) + 1
                /\ reports'[i].properties.last_seen = pending[idx].created_date
                /\ \A j \in 1..Len(reports) : j # i => reports'[j] = reports[j]
        /\ (/\ Consumed
            /\ Len(reports) = 1
            /\ SeenCount(reports[1]) = 1
            /\ FeatLat(reports[1]) = pending[idx].lat
            /\ reports[1].properties.sticker_type = CandCategory(pending[idx]))
            => Len(reports') = 1 /\ SeenCount(reports'[1]) = 2
      ]_vars

\* The second of two like reports was just merged: one feature, seen twice.
C6_Witness ==
    /\ LastTurnMerged
    /\ Len(reports) = 1
    /\ SeenCount(reports[1]) = 2
    /\ reports[1].properties.sticker_type = CandCategory(pending[idx - 1])
    /\ FeatLat(reports[1]) = pending[idx - 1].lat
    /\ reports[1].properties.last_seen = posts[obs.sid].created_at

-----------------------------------------------------------------------------
(* C7: a candidate matching no feature is appended as exactly one feature  *)
(* with the status of its intent, seen_count 1, first_seen and last_seen   *)
(* (read as the end of the cycle stores them) equal to its date and        *)
(* radius_m equal to its accuracy_m; no existing feature is modified.      *)

C7_Insert ==
    [][ (Consumed /\ ~\E i \in 1..Len(reports) : MatchFolded(reports[i], pending[idx]))
            => /\ Len(reports') = Len(reports) + 1
               /\ SubSeq(reports', 1, Len(reports)) = reports
               /\ LET item == pending[idx]
                      p == NormalizeProps(reports'[Len(reports')].properties)
                  IN  /\ p.status = item.event
                      /\ p.radius_m = item.accuracy_m
                      /\ get(p, "first_seen", None) = item.created_date
                      /\ get(p, "last_seen", None) = item.created_date
                      /\ "seen_count" \in DOMAIN p /\ p.seen_count = 1
      ]_vars

-----------------------------------------------------------------------------
(* C8: a merge of a candidate of intent present sets the status of the     *)
(* feature to present and its removed_at to null; one of intent removed    *)
(* sets the status to removed and removed_at to the removal date of the    *)
(* candidate, the date of its removal report.                              *)

C8_MergeStatus ==
    [][ Merged
            => \A i \in 1..Len(reports) : reports'[i] # reports[i] =>
                LET p == reports'[i].properties
                    item == pending[idx]
                IN  /\ item.event = "present"
                        => p.status = "present" /\ get(p, "removed_at", "") = None
                    /\ item.event = "removed"
                        => /\ p.status = "removed"
                           /\ get(p, "removed_at", None) = item.created_date
      ]_vars

-----------------------------------------------------------------------------
(* C9: a merge of a candidate with a concrete category into a feature of   *)
(* category "unknown" gives the feature exactly the category text of the   *)
(* candidate; a merge never changes a category other than "unknown".       *)

C9_Promote ==
    [][ Merged
            => \A i \in 1..Len(reports) : reports'[i] # reports[i] =>
                LET old == reports[i].properties.sticker_type
                    new == reports'[i].properties.sticker_type
                    cand == CandCategory(pending[idx])
                IN  /\ (old = "unknown" /\ cand # "unknown") => new = cand
                    /\ old # "unknown" => new = old
      ]_vars

-----------------------------------------------------------------------------
(* C10: after a merge radius_m and accuracy_m of the feature are the       *)
(* minimum of their former values and the values of the candidate.         *)

C10_Tighten ==
    [][ Merged
            => \A i \in 1..Len(reports) : reports'[i] # reports[i] =>
                LET p == reports[i].properties
                    q == reports'[i].properties
                    item == pending[idx]
                IN  /\ q.radius_m = Min(p.radius_m, CandRadius(item))
                    /\ FeatAccuracy(q) = Min(FeatAccuracy(p), item.accuracy_m)
      ]_vars

-----------------------------------------------------------------------------
(* C11: when several features match a candidate, the candidate is merged   *)
(* into the first of them in stored order; every other feature, a later    *)
(* matching one included, is left as it was.                               *)

C11_FirstMatchWins ==
    [][ Merged
            => \E i \in 1..Len(reports) :
                /\ MatchFolded(reports[i], pending[idx])
                /\ \A j \in 1..(i - 1) : ~MatchFolded(reports[j], pending[idx])
                /\ reports'[i] # reports[i]
                /\ \A j \in 1..Len(reports) : j # i => reports'[j] = reports[j]
      ]_vars

\* A report that matched two features was merged into the first of them.
C11_Witness ==
    /\ LastTurnMerged
    /\ Len(reports) >= 2
    /\ MatchFolded(reports[1], pending[idx - 1])
    /\ MatchFolded(reports[2], pending[idx - 1])
    /\ SeenCount(reports[1]) = 2
    /\ SeenCount(reports[2]) = 1

-----------------------------------------------------------------------------
(* Vocabulary of the deletion properties (bot.py).                         *)

\* The status ids whose deletion the step has seen confirmed: a request
\* with token to the configured instance was answered 404 or 410.
Gone(o) == IF "gone" \in DOMAIN o THEN o.gone ELSE {}

\* The ids of the features of reports.geojson.
StoredIds(r) == {r[i].properties.id : i \in 1..Len(r)}

\* The feature of reports.geojson that stems from the status sid.
StoredFeature(r, sid) == r[CHOOSE i \in 1..Len(r) : r[i].properties.status_id = sid]

-----------------------------------------------------------------------------
(* C12: a feature leaves reports.geojson only in a step that has seen the  *)
(* deletion of its source post confirmed; a failed favourited-by lookup or *)
(* any other failed request removes no feature.                            *)

C12_RemovedOnlyWhenDeleted ==
    [][ \A j \in 1..Len(saved.reports) :
            saved.reports[j].properties.id \notin StoredIds(saved'.reports)
                => saved.reports[j].properties.status_id \in Gone(obs')
      ]_vars

-----------------------------------------------------------------------------
(* C13: only a request with token to the configured instance that is       *)
(* answered 404 or 410 confirms a deletion: a step drops a pending item,   *)
(* drops a feature or demotes a feature to unknown only if it has seen     *)
(* such an answer for the source post.                                     *)

\* The feature is in reports.geojson before the step and not after it.
FeatureDropped(f) == f.properties.id \notin StoredIds(saved'.reports)

\* The feature is marked unknown by the step.
FeatureDemoted(f) ==
    /\ f.properties.status # "unknown"
    /\ \E k \in 1..Len(saved'.reports) :
        /\ saved'.reports[k].properties.id = f.properties.id
        /\ saved'.reports[k].properties.status = "unknown"

\* The turn of the publish loop takes the item out of the queue unpublished.
ItemDropped ==
    /\ Turn
    /\ idx' = idx + 1
    /\ active_pending' = active_pending
    /\ reports' = reports
    /\ pending[idx].id \notin reports_ids

\* The steps that drop a pending item have seen its deletion confirmed.
ItemDropsConfirmed ==
    /\ ItemDropped => pending[idx].status_id \in Gone(obs')
    /\ (pc = "idle" /\ pc' = "process")
            => \A i \in 1..Len(pending') :
                    pending'[i].status = "DROPPED"
                        => pending'[i].status_id \in Gone(obs')

C13_OnlyConfirmedDeletion ==
    [][ /\ ItemDropsConfirmed
        /\ \A j \in 1..Len(saved.reports) :
                (FeatureDropped(saved.reports[j]) \/ FeatureDemoted(saved.reports[j]))
                    => saved.reports[j].properties.status_id \in Gone(obs')
      ]_vars

\* The same for every drop but that of a feature whose lost-approval timer
\* was running: the deletion probes alone follow the rule.
DeletionProbesSound ==
    [][ /\ ItemDropsConfirmed
        /\ \A j \in 1..Len(saved.reports) :
                LET f == saved.reports[j]
                IN  (\/ FeatureDropped(f) /\ UnfavKey(f.properties.status_id) \notin DOMAIN cache
                     \/ FeatureDemoted(f))
                        => f.properties.status_id \in Gone(obs')
      ]_vars

-----------------------------------------------------------------------------
(* C14: when the publish loop looks at a PENDING or NEEDS_INFO item and    *)
(* sees the deletion of its source post confirmed, that turn takes the     *)
(* item out of the queue and publishes nothing.                            *)

C14_DeletedItemDropped ==
    [][ (/\ Turn
         /\ pending[idx].status \in {"PENDING", "NEEDS_INFO"}
         /\ pending[idx].status_id \in Gone(obs'))
            => /\ idx' = idx + 1
               /\ active_pending' = active_pending
               /\ reports' = reports
      ]_vars

-----------------------------------------------------------------------------
(* Vocabulary of the intake properties.                                    *)

\* The ingest loop is about to handle a top-level status with mention and
\* image that is neither published nor in the queue.
HandlesNew ==
    /\ pc = "handle"
    /\ LET st == Head(timeline)
       IN  /\ st.content.mention
           /\ st.in_reply_to_id = 0
           /\ \E i \in 1..Len(st.media_attachments) : st.media_attachments[i].type = "image"
           /\ ItemId(st.id) \notin reports_ids
           /\ \A i \in 1..Len(pending) : pending[i].source # st.url

\* The item the step has appended to the queue.
NewItem == pending'[Len(pending')]

-----------------------------------------------------------------------------
(* C15: a new post with image and mention is never discarded: it is        *)
(* appended to the queue; when no position was found the item is           *)
(* NEEDS_INFO without coordinates, with reason missing_location if the     *)
(* text holds no location and geocode_failed if the geocoder failed on the *)
(* query of the text; a PENDING item has the coordinates of the text or    *)
(* those the geocoder returned for its query.                              *)

C15_UnresolvedKept ==
    [][ HandlesNew
            => LET st == Head(timeline)
                   loc == st.content.loc
               IN  /\ Len(pending') = Len(pending) + 1
                   /\ SubSeq(pending', 1, Len(pending)) = pending
                   /\ NewItem.source = st.url
                   /\ NewItem.status \in {"PENDING", "NEEDS_INFO"}
                   /\ loc.kind = "none" => NewItem.status = "NEEDS_INFO"
                   /\ NewItem.status = "NEEDS_INFO"
                        => /\ ~Resolved(NewItem)
                           /\ loc.kind # "coords"
                           /\ NewItem.error = IF loc.kind = "none"
                                              THEN "missing_location"
                                              ELSE "geocode_failed"
                   /\ NewItem.status = "PENDING"
                        => <<NewItem.lat, NewItem.lon>> =
                                IF loc.kind = "coords" THEN loc.coords ELSE GeoTruth(loc.q)
      ]_vars

-----------------------------------------------------------------------------
(* C4: whenever the approval lookup succeeds for a PENDING item with a     *)
(* resolved position, that turn of the publish loop takes the item out of  *)
(* the queue and changes the published collection, and the cycle goes on.  *)

\* C16: a report whose coordinates lie farther than the conflict threshold
\* from the geocoded address of the same text is held as NEEDS_INFO with
\* reason location_conflict: while its source text still holds the
\* conflicting pair, a turn of the publish loop neither makes the item
\* PENDING nor publishes it.
C16_ConflictHeld ==
    [][ (/\ Turn
         /\ pending[idx].status = "NEEDS_INFO"
         /\ get(pending[idx], "error", None) = "location_conflict"
         /\ location_conflict(posts[pending[idx].status_id].content)
         /\ idx' = idx + 1)
            => /\ reports' = reports
               /\ \/ active_pending' = active_pending
                  \/ /\ Len(active_pending') = Len(active_pending) + 1
                     /\ active_pending'[Len(active_pending')].status = "NEEDS_INFO"
                     /\ active_pending'[Len(active_pending')].error = "location_conflict" ]_vars

\* The items of the store or of the running cycle that stem from status sid.
ItemsOf(sid) ==
    {saved.pending[i] : i \in {j \in 1..Len(saved.pending) :
                                  saved.pending[j].status_id = sid}}
    \cup {pending[i] : i \in {j \in 1..Len(pending) : pending[j].status_id = sid}}
    \cup {active_pending[i] : i \in {j \in 1..Len(active_pending) :
                                       active_pending[j].status_id = sid}}

\* The text of status sid now holds a location that can be resolved, and
\* where it lies.
ResolvableNow(sid) ==
    /\ sid \in 1..Len(posts)
    /\ posts[sid].content.loc \in {LocQuery("Hauptstrasse 5, Springfield"),
                                    LocCoords(SiteB)}

ResolvedSite(sid) ==
    IF posts[sid].content.loc.kind = "coords" THEN posts[sid].content.loc.coords
    ELSE GeoTruth(posts[sid].content.loc.q)

\* C17: a NEEDS_INFO item whose source post has been edited to hold
\* coordinates or a geocodable address eventually is PENDING with the
\* coordinates of that location (or it has left the store).
C17_EditedEventuallyPending ==
    \A sid \in 1..MaxStore :
        (/\ pc = "idle"
         /\ ResolvableNow(sid)
         /\ \E it \in ItemsOf(sid) : it.status = "NEEDS_INFO")
        ~> (\/ ItemsOf(sid) = {}
            \/ \E it \in ItemsOf(sid) :
                    /\ it.status = "PENDING"
                    /\ <<it.lat, it.lon>> = ResolvedSite(sid))

\* The store holds one item, recorded for a text without location, and no
\* feature.
LoneMissingLocation ==
    /\ Len(posts) = 1
    /\ saved.reports = <<>>
    /\ \A it \in ItemsOf(1) : it.status = "NEEDS_INFO" => it.error = "missing_location"

\* The part of C17 about coordinates, for a lone item: after the edit the
\* item eventually is PENDING at the coordinates of the text.
CoordinatesEditPromoted ==
    []LoneMissingLocation =>
        ((/\ pc = "idle"
          /\ posts[1].content.loc = LocCoords(SiteB)
          /\ \E it \in ItemsOf(1) : it.status = "NEEDS_INFO")
         ~> (\/ ItemsOf(1) = {}
             \/ \E it \in ItemsOf(1) : it.status = "PENDING" /\ <<it.lat, it.lon>> = SiteB))

\* The part of C17 about addresses, for a lone item: after the edit the
\* item eventually is PENDING, or the text is edited once more.
AddressEditPromoted ==
    []LoneMissingLocation =>
        ((/\ pc = "idle"
          /\ posts[1].content.loc = LocQuery("Hauptstrasse 5, Springfield")
          /\ \E it \in ItemsOf(1) : it.status = "NEEDS_INFO")
         ~> (\/ ItemsOf(1) = {}
             \/ posts[1].content.loc.kind = "coords"
             \/ \E it \in ItemsOf(1) : it.status = "PENDING"))

\* The items the cycle holds or has stored.
AllBotItems ==
    {saved.pending[i] : i \in 1..Len(saved.pending)}
    \cup {pending[i] : i \in 1..Len(pending)}
    \cup {active_pending[i] : i \in 1..Len(active_pending)}

\* C18: every PENDING item stems from a post with an image attachment and
\* the mention of the bot account.
C18_PendingHasMentionAndImage ==
    \A it \in AllBotItems :
        it.status = "PENDING"
            => /\ posts[it.status_id].content.mention
               /\ has_image(posts[it.status_id].media_attachments)

\* C19: every PENDING item has a latitude within [-90, 90] and a longitude
\* within [-180, 180] and is not at the placeholder (0, 0).
C19_PendingCoordsValid ==
    \A it \in AllBotItems :
        it.status = "PENDING"
            => /\ Abs(it.lat) <= 90 * PerDegree
               /\ Abs(it.lon) <= 180 * PerDegree
               /\ <<it.lat, it.lon>> # <<0, 0>>

\* The tier a request belongs to: 1 exact node, 2 nearest geometry,
\* 3 address search, 4 single-street fallback.
TierOf(call) ==
    CASE call = "overpass_node" -> 1
      [] call = "overpass_geom" -> 2
      [] call = "nominatim" -> 3
      [] OTHER -> 4

\* The request found what it asked for.
Succeeded(call, ans) ==
    CASE call = "overpass_node" -> ans.node = "hit"
      [] call = "overpass_geom" -> ans.geom = "hit"
      [] call = "nominatim" -> ans.full = "hit"
      [] call = "nominatim_a" -> ans.a = "hit"
      [] OTHER -> ans.b = "hit"

\* The tiers a query goes through.
TiersFor(q) == IF DOMAIN RE_INTERSECTION(q) # {} THEN {1, 2, 3, 4} ELSE {3}

MethodOfTier(t) ==
    CASE t = 1 -> "overpass_node"
      [] t = 2 -> "overpass_nearest"
      [] t = 3 -> "nominatim"
      [] OTHER -> "fallback"

\* The ladder as the claim describes it, for a finished lookup o.
TierLadder(o) ==
    LET calls == o.res.calls
        n == Len(calls)
    IN  /\ n >= 1
        \* the first request is of the first tier of the query
        /\ \A t \in TiersFor(o.q) : TierOf(calls[1]) <= t
        \* tiers in order, none skipped, none outside the query's ladder
        /\ \A i \in 1..n : TierOf(calls[i]) \in TiersFor(o.q)
        /\ \A i \in 1..(n - 1) :
                /\ TierOf(calls[i]) <= TierOf(calls[i + 1])
                /\ TierOf(calls[i + 1]) <= TierOf(calls[i]) + 1
                \* a request is made only after every earlier one failed
                /\ ~Succeeded(calls[i], o.ans)
        \* the lookup ends with the first success or with the last tier
        /\ IF Succeeded(calls[n], o.ans)
           THEN /\ o.res.coords # <<>>
                /\ o.res.method = MethodOfTier(TierOf(calls[n]))
           ELSE /\ o.res.coords = <<>>
                /\ o.res.method = "none"
                /\ \A t \in TiersFor(o.q) : t <= TierOf(calls[n])

\* C20: geocode_query_worldwide goes through the tiers exact node, nearest
\* geometry, address search, single-street fallback in this order (the
\* first two and the last for intersection queries only), makes a request
\* only when every earlier one failed, and returns the method of the tier
\* that succeeded.
C20_TierLadder == obs.impl # "none" => TierLadder(obs)

\* The same for the function of bot.py alone.
BotTierLadder == obs.impl = "bot" => TierLadder(obs)

\* The number of requests the lookup makes when every one of them fails.
AllRequests(impl, q) == IF impl = "bot" /\ DOMAIN RE_INTERSECTION(q) # {} THEN 5 ELSE 1

\* C21: no failure of a provider leaves geocode_query_worldwide as an
\* exception; after a failed request the next one is made, and when all
\* have failed the result is no coordinates with method "none".
C21_FailuresFallThrough ==
    obs.impl # "none"
        => /\ ~obs.res.raised
           /\ obs.res.coords = <<>>
                => /\ obs.res.method = "none"
                   /\ Len(obs.res.calls) = AllRequests(obs.impl, obs.q)
           /\ obs.res.coords # <<>> => Succeeded(obs.res.calls[Len(obs.res.calls)], obs.ans)

\* Overpass is unreachable and the address search answers with an error;
\* the lookup ends in the single-street fallback.
C21_Witness ==
    /\ obs.impl = "bot"
    /\ obs.q = CrossQuery
    /\ obs.ans.node = "error" /\ obs.ans.geom = "error" /\ obs.ans.full = "raise"
    /\ obs.ans.a = "raise" /\ obs.ans.b = "hit"
    /\ obs.res.method = "fallback"

\* The ingest loop has just handled a status whose text holds the query q.
IngestedQuery(q) ==
    /\ Len(posts') = Len(posts) + 1
    /\ parse_location(posts'[Len(posts')].content).coords = <<>>
    /\ parse_location(posts'[Len(posts')].content).q = q

\* C22: a query resolved successfully is cached under its query string; a
\* later intake of the same query makes no call to a provider and takes
\* exactly the coordinates and the method of the entry; the entry is never
\* modified or removed; a failed resolution writes no entry.
C22_CacheRoundTrip ==
    [][ \A q \in GeoQueries :
            LET key == <<"geo", q>>
                item == pending'[Len(pending')]
            IN  /\ key \in DOMAIN cache
                    => /\ key \in DOMAIN cache'
                       /\ cache'[key] = cache[key]
                       /\ IngestedQuery(q)
                            => /\ ~obs'.looked
                               /\ item.status = "PENDING"
                               /\ <<item.lat, item.lon>> = <<cache[key].lat, cache[key].lon>>
                               /\ item.geocode_method = cache[key].method
                /\ (key \notin DOMAIN cache /\ IngestedQuery(q))
                    => (key \in DOMAIN cache' <=> item.status = "PENDING") ]_vars

\* The part of C22 that does not concern what the later intake yields.
CacheEntriesStable ==
    [][ \A q \in GeoQueries :
            LET key == <<"geo", q>>
                item == pending'[Len(pending')]
            IN  /\ key \in DOMAIN cache
                    => /\ key \in DOMAIN cache'
                       /\ cache'[key] = cache[key]
                       /\ IngestedQuery(q) => ~obs'.looked /\ item.status = "PENDING"
                /\ (key \notin DOMAIN cache /\ IngestedQuery(q))
                    => (key \in DOMAIN cache' <=> item.status = "PENDING") ]_vars

\* The accuracy of the tier a method names (hm/core/constants.py).
TierAccuracy(method) ==
    CASE method = "gps" -> ACC_GPS
      [] method = "overpass_node" -> ACC_NODE
      [] method = "overpass_nearest" -> ACC_NEAREST
      [] method = "fallback" -> ACC_FALLBACK
      [] OTHER -> ACC_DEFAULT

\* C23: every PENDING item carries the accuracy of the tier that resolved
\* it, the fallback accuracy only after the single-street fallback, and
\* its radius, where it has one, equals its accuracy.
C23_TierAccuracy ==
    \A it \in AllBotItems :
        it.status = "PENDING"
            => /\ it.accuracy_m = TierAccuracy(it.geocode_method[1])
               /\ get(it, "radius_m", it.accuracy_m) = it.accuracy_m

\* The point the text of status sid resolves to, before any snap.
ResolvedOf(sid) ==
    LET loc == parse_location(posts[sid].content)
    IN  IF loc.coords # <<>> THEN loc.coords ELSE GeoTruth(loc.q)

\* C24: the coordinates stored on a candidate are at most the maximum snap
\* distance (50 m) away from the coordinates it was resolved to.
C24_SnapBounded ==
    \A it \in AllBotItems :
        it.status = "PENDING"
            => haversine_m(ResolvedOf(it.status_id)[1], ResolvedOf(it.status_id)[2],
                           it.lat, it.lon) <= BotSnapMax

\* C25: a candidate whose coordinates were given in the text keeps exactly
\* those coordinates.
C25_GpsUntouched ==
    \A it \in AllBotItems :
        (it.status = "PENDING" /\ it.geocode_method[1] = "gps")
            => <<it.lat, it.lon>> = parse_location(posts[it.status_id].content).coords

\* The highway query found a public walkable way or road: an element that
\* is not private and whose highway type is one the snapper uses.
WayFound(o) ==
    \E i \in DOMAIN ElementsOf(o.ways) :
        /\ ~ElementsOf(o.ways)[i].private
        /\ KindOfWay(ElementsOf(o.ways)[i].tags.highway) \in {"walk", "road"}

\* The street-furniture query found a public bench that no building covers.
FurnitureFound(o) ==
    /\ \E i \in DOMAIN ElementsOf(o.poi) : ~ElementsOf(o.poi)[i].private
    /\ ElementsOf(o.poi_building) = <<>>

\* snap_to_public_way has answered with the point it was given and the
\* empty note.
Untouched == obs.res = <<obs.c[1], obs.c[2], <<>>>>

\* C26 as written: whenever no public walkable way or road is found within
\* the search radius, snap_to_public_way returns the input coordinates and
\* an empty note.
C26_NoWayUntouched ==
    (obs.impl = "snap" /\ ~WayFound(obs.osm)) => Untouched

\* C26: whenever neither a public walkable way or road nor public street
\* furniture free of buildings is found, snap_to_public_way returns the
\* input coordinates and an empty note; this covers the worlds whose only
\* ways are private and the worlds in which every map-data call fails.
C26_NothingFoundUntouched ==
    (obs.impl = "snap" /\ ~WayFound(obs.osm) /\ ~FurnitureFound(obs.osm)) => Untouched

\* The only way near the point is a private driveway, the furniture query
\* failed, and the answer is the point itself.
C26_Witness ==
    /\ obs.impl = "snap"
    /\ obs.osm.ways = Data(TRUE, <<Driveway>>)
    /\ obs.osm.poi = NoData
    /\ Untouched

\* Every map-data call failed and the answer is the point itself.
AllCallsFailUntouched ==
    /\ obs.impl = "snap"
    /\ obs.osm = [poi |-> NoData, poi_building |-> NoData, ways |-> NoData,
                  walk |-> NoData, building |-> NoData]
    /\ Untouched

\* The answer is a road snap that was pushed away from a building.
RoadPushed ==
    /\ obs.impl = "snap"
    /\ Len(obs.res[3]) = 3
    /\ obs.res[3][1] = "snap_road_offset"

\* The direction from a way that lies off north of the point back to the
\* point.
Toward(off) == IF off > 0 THEN 0 - 1 ELSE 1

\* C27: a road snap that was pushed away from a building lies
\* OFFSET_ROAD_M + OFFSET_BUILDING_M = 24 m from the centerline of the
\* road, on the side of the original point.
C27_PushSameSide ==
    RoadPushed =>
        \E i \in DOMAIN ElementsOf(obs.osm.ways) :
            LET r == ElementsOf(obs.osm.ways)[i]
            IN  /\ KindOfWay(r.tags.highway) = "road"
                /\ ~r.private
                /\ obs.res[1] = obs.c[1] + r.off
                                 + Toward(r.off) * (OFFSET_ROAD_M + OFFSET_BUILDING_M)

\* The road offset alone: a road snap that was not pushed lies OFFSET_ROAD_M
\* from the centerline on the side of the original point.
RoadOffsetTowardPoint ==
    (obs.impl = "snap" /\ Len(obs.res[3]) = 2 /\ obs.res[3][1] = "snap_road_offset")
        => \E i \in DOMAIN ElementsOf(obs.osm.ways) :
               LET r == ElementsOf(obs.osm.ways)[i]
               IN  /\ KindOfWay(r.tags.highway) = "road"
                   /\ ~r.private
                   /\ obs.res[1] = obs.c[1] + r.off + Toward(r.off) * OFFSET_ROAD_M

\* A present feature that was last seen StaleAfterDays or more before the
\* day of the cycle.
Stale(f) ==
    /\ f.properties.status = "present"
    /\ Today - DayOf(f.properties.last_seen) >= StaleAfterDays

\* C28: when a poll cycle ends, its sweep has turned every present feature
\* whose last_seen lies at least StaleAfterDays before the current date to
\* unknown: the stored collection holds no stale present feature.
C28_StaleSwept ==
    [][BotFinish => \A j \in 1..Len(saved'.reports) : ~Stale(saved'.reports[j])]_vars

\* apply_stale_rule, if it were called on the stored collection, would turn
\* exactly the stale features to unknown and change nothing else.
StaleRuleItself ==
    \A j \in 1..Len(saved.reports) :
        LET f == saved.reports[j]
            g == apply_stale_rule(saved.reports)[j]
        IN  /\ ~Stale(g)
            /\ f.properties.status # "present" => g = f
            /\ (f.properties.status = "present"
                    /\ Today - DayOf(f.properties.last_seen) = StaleAfterDays - 1) => g = f

\* C29: whatever the two processes do inside save_json, crashes and
\* failures included, the file at the path holds one complete document,
\* and every temporary file of the directory belongs to a call that is
\* still running or to a process that died: a finished or failed call
\* has left none.
C29_AtomicSave ==
    /\ Target \in DOMAIN saved
    /\ \E d \in Docs : saved[Target] = Dumped(d)
    /\ \A n \in DOMAIN saved \ {Target} :
            \E w \in Writers : obs[w].tmp_name = n /\ obs[w].at \in {"open", "crashed"}

\* The two calls overlapped: process 1 died with half of its text in its
\* temporary file, process 2 finished and its document is at the path.
C29_Witness ==
    /\ obs[1].at = "crashed"
    /\ obs[1].k = 1
    /\ obs[2].at = "done"
    /\ saved[Target] = Dumped(<<2, 1>>)

\* A call failed after it had written, while the other call was running.
FailedCallOverlapped ==
    /\ obs[1].at = "failed"
    /\ obs[2].at = "open"
    /\ obs[2].k = 1
    /\ DOMAIN saved = {Target, obs[2].tmp_name}

\* C30: one failing candidate does not end the batch: every step the
\* publish loop takes on a candidate, a failing one included, leaves the
\* cycle running with the next candidate up, so that the rest of the batch,
\* the prunes and the saves at the end of the cycle still happen.
C30_BatchSurvives ==
    [][Turn => (pc' = "process" /\ idx' = idx + 1)]_vars

\* Some feature other than the one published from the post sid carries the
\* photo of the post: an item of that post was merged into it.
Folded(sid) ==
    \E j \in 1..Len(reports) :
        /\ reports[j].properties.item_id # ItemId(sid)
        /\ Contains(ListOr(reports[j].properties, "media"), ImageUrl(sid))

\* C31: a post whose item was folded into an existing feature is not queued
\* again: no later poll cycle appends a pending item for it, so it cannot
\* be merged (and counted in seen_count) a second time.
C31_FoldedOnce ==
    [][(HandlesNew /\ Len(pending') = Len(pending) + 1) => ~Folded(Head(timeline).id)]_vars

\* C32: between two cycles the persisted cursor of a hashtag has not moved
\* past a post of that hashtag whose pending item is not in pending.json:
\* such a post would never be fetched again.
C32_CursorBehindQueue ==
    pc = "idle" =>
        \A t \in 1..Len(Tags), i \in 1..Len(posts) :
            (Tags[t] \in posts[i].content.tags /\ i <= saved.timeline_state[t])
                => \E j \in 1..Len(saved.pending) : saved.pending[j].status_id = i

\* The status _handle_status is about to take is a reply.
HandlesReply == pc = "handle" /\ Head(timeline).in_reply_to_id # 0

TrustedAgain ==
    {i \in 1..Len(posts) :
        /\ posts[i].in_reply_to_id # 0
        /\ AgainTag \in posts[i].content.tags
        /\ AllowListed(posts[i].account)}

\* C34: the feature of the report has been seen once for its publication
\* and at most once more for every #report_again reply of a trusted
\* account, however many cycles fetched the replies.
C34_AgainCountedOnce ==
    \A i \in 1..Len(reports) :
        SeenCount(reports[i]) <= 1 + Cardinality(TrustedAgain)

\* The public replies the bot has posted under status i.
RepliesUnder(i) == {j \in 1..Len(sent) : sent[j].to = i}

\* The bot posts at most one reply under a status, and none under its own.
OneReplyPerPost ==
    \A i \in 1..Len(posts) :
        /\ Cardinality(RepliesUnder(i)) <= 1
        /\ posts[i].account = BotAcct => RepliesUnder(i) = {}

\* A report of somebody else that is not published yet and that the bot
\* has neither replied to nor decided not to reply to.
OwedReply(st) ==
    /\ st.in_reply_to_id = 0
    /\ _has_required_mention(st)
    /\ st.account # BotAcct
    /\ ItemId(st.id) \notin reports_ids
    /\ RepliesUnder(st.id) = {}
    /\ \A kind \in {"no_image", "needs", "pending"} : <<kind, st.id>> \notin DOMAIN cache

\* C35: a reply that could not be posted is tried again: when a status
\* that is still owed its reply is handled while the instance accepts
\* replies, the reply is posted.
C35_FailedReplyRetried ==
    [][(pc = "handle" /\ OwedReply(Head(timeline)) /\ HandleUp)
          => \E j \in 1..Len(sent') : sent'[j].to = Head(timeline).id]_vars

\* The category of a feature as the matching rule reads it.
CategoryOf(f) == Lower(OrUnknown(f.properties, "sticker_type"))

\* The matching rule between two published features: within the larger
\* of the two radii, and of one category or one of them unknown.
SameSticker(f, g) ==
    /\ haversine_m(f.geometry.coordinates[2], f.geometry.coordinates[1],
                   g.geometry.coordinates[2], g.geometry.coordinates[1])
          <= Max(IntOr(f.properties, "radius_m", 50), IntOr(g.properties, "radius_m", 50))
    /\ \/ CategoryOf(f) = CategoryOf(g)
       \/ "unknown" \in {CategoryOf(f), CategoryOf(g)}

\* C36: no two published features satisfy the matching rule with each
\* other.
C36_NoMatchingPair ==
    \A i, j \in 1..Len(reports) : i # j => ~SameSticker(reports[i], reports[j])

\* Two features are published, one of them has taken up a second report,
\* and they lie closer than the fallback radius but not in one category.
C36_Witness ==
    /\ Len(reports) >= 2
    /\ \E i, j \in 1..Len(reports) :
        /\ i # j
        /\ SeenCount(reports[i]) >= 2
        /\ haversine_m(reports[i].geometry.coordinates[2], 0,
                       reports[j].geometry.coordinates[2], 0) < ACC_FALLBACK

\* The place of a date among the dates of the posts; 0 for no date.
DateIx(d) == IF \E i \in 1..Len(Dates) : Dates[i] = d
             THEN CHOOSE i \in 1..Len(Dates) : Dates[i] = d ELSE 0

\* C37: the last_seen of a published feature is never earlier than its
\* first_seen.
C37_LastSeenNotBeforeFirst ==
    \A i \in 1..Len(reports) :
        LET fs == DateIx(get(reports[i].properties, "first_seen", None))
            ls == DateIx(get(reports[i].properties, "last_seen", None))
        IN  (fs # 0 /\ ls # 0) => fs <= ls

\* C38: from the second run on over an unchanged source and unchanged
\* replies, update_features_from_context leaves the feature as it was and
\* counts no change.
C38_ContextIdempotent ==
    obs.runs >= 2 => (obs.props = obs.before /\ obs.changed = 0)

\* The three documents on disk are what the process holds in memory.
AllSaved == saved = [cache |-> cache, pending |-> pending, reports |-> reports]

\* C39: with one_shot the end of the poll cycle, reached by success or by
\* an exception, is the end of run_loop, with the three documents saved.
C39_OneShotReturns ==
    [][(pc \in {"fetch", "handle", "process"} /\ pc' \notin {"fetch", "handle", "process"})
          => (pc' = "returned" /\ AllSaved')]_vars

C4_PublishSucceeds ==
    [][ (/\ Turn
         /\ pending[idx].status = "PENDING"
         /\ Resolved(pending[idx])
         /\ obs'.sid = pending[idx].status_id
         /\ TrustedFav(obs'.resp))
            => /\ pc' = "process"
               /\ idx' = idx + 1
               /\ active_pending' = active_pending
               /\ reports' # reports
      ]_vars

====
